---- MODULE Spec2Model ----
(***************************************************************************)
(* State-machine model of the top-down shooter engine (class DoomEngine,   *)
(* src/engine/doomEngine.ts) together with its AudioManager                *)
(* (src/engine/audio.ts) and InputState (src/engine/input.ts).             *)
(*                                                                         *)
(* Numeric conventions.  The engine computes with IEEE doubles; the model  *)
(* computes with integers on a fixed grid:                                 *)
(*   - time (timestamps, dt, cooldowns, lifetimes) in milliseconds;        *)
(*   - positions, sizes and ranges in 1/20 pixel ("units"), so that        *)
(*     speed[px/s] * dt[ms] / 50 is an exact number of units whenever dt   *)
(*     is a multiple of 10 ms;                                             *)
(*   - screenShake in 1/10, decal alpha and light intensity in 1/10000.    *)
(* Directions (player.angle) are kept as the vector handed to atan2; the   *)
(* cosine and sine of the angle are that vector divided by its length.     *)
(* An enemy carries sinceAttack, the simulated ms since its last attack    *)
(* (history, not engine state), and xNaN, which says that its x is NaN.    *)
(* player.walkCycle is kept in 1/1000.                                     *)
(* Fields read only by the renderer (animFrame, bobOffset, colours,        *)
(* particle/decal positions and velocities, gameTime, fps) are not part    *)
(* of the state.                                                           *)
(***************************************************************************)
EXTENDS Integers, Sequences, FiniteSets, TLC

\* --------------------------------------------------------------------------
\* Arithmetic helpers
\* --------------------------------------------------------------------------

Abs(a) == IF a < 0 THEN -a ELSE a

Min(a, b) == IF a < b THEN a ELSE b

Max(a, b) == IF a > b THEN a ELSE b

\* Division rounding toward zero (b > 0).
TruncDiv(a, b) == IF a >= 0 THEN a \div b ELSE -((-a) \div b)

RECURSIVE IsqrtFrom(_, _)
IsqrtFrom(n, r) ==
  LET r2 == (r + n \div r) \div 2
  IN  IF r2 >= r THEN r ELSE IsqrtFrom(n, r2)

\* floor(sqrt(n)), by Newton's iteration.
Isqrt(n) == IF n <= 0 THEN 0 ELSE IsqrtFrom(n, n)

\* Math.hypot on the integer grid (exact when one component is 0).
Hypot(dx, dy) ==
  IF dy = 0 THEN Abs(dx)
  ELSE IF dx = 0 THEN Abs(dy)
  ELSE Isqrt(dx * dx + dy * dy)

\* Squared distance, for the comparisons hypot(..) < r and hypot(..) > r.
Dist2(dx, dy) == dx * dx + dy * dy

\* Units per pixel (position resolution of the model).
PX == 4 * 5

\* --------------------------------------------------------------------------
\* Program constants (src/engine/doomEngine.ts:107-114)
\* --------------------------------------------------------------------------

TILE_SIZE == 32

PLAYER_SIZE == 18

BULLET_SPEED == 900

BULLET_LIFE == 2000

FIRE_RATE == 80

WAVE_SPAWN_DELAY == 3000

MAX_DECALS == 200

MAX_PARTICLES == 500

\* Upper clamp of the frame delta, Math.min(0.05, ...), in ms.
MAX_DT == 50

\* Attempt budget of getRandomSpawnPosition.
SPAWN_ATTEMPTS == 50

\* Minimum distance (px) between a spawn position and the player.
SPAWN_MIN_DIST == 250

\* Pickup collection radius (px).
PICKUP_RADIUS == 28

\* Number of pickups placed at level start.
LEVEL_PICKUPS == 15

\* Cap of maxHealth reached through armor pickups.
ARMOR_MAX_HEALTH == 150

\* Snapshot throttle window of emitState, in ms.
UI_THROTTLE == 120

Tile == TILE_SIZE * PX

\* --------------------------------------------------------------------------
\* Enemy templates (ENEMY_TYPES)
\* --------------------------------------------------------------------------

EnemyTypes == {"zombie", "runner", "tank", "shooter", "spitter"}

ENEMY_TYPES ==
  [ zombie  |-> [hp |-> 40,  speed |-> 55,  attackRange |-> 28,  damage |-> 12, size |-> 16],
    runner  |-> [hp |-> 25,  speed |-> 160, attackRange |-> 22,  damage |-> 8,  size |-> 12],
    tank    |-> [hp |-> 150, speed |-> 30,  attackRange |-> 35,  damage |-> 30, size |-> 28],
    shooter |-> [hp |-> 50,  speed |-> 40,  attackRange |-> 280, damage |-> 18, size |-> 15],
    spitter |-> [hp |-> 35,  speed |-> 50,  attackRange |-> 200, damage |-> 25, size |-> 18] ]

IsRanged(type) == type \in {"shooter", "spitter"}

getEnemyScore(type) ==
  CASE type = "zombie"  -> 10
    [] type = "runner"  -> 15
    [] type = "tank"    -> 50
    [] type = "shooter" -> 30
    [] type = "spitter" -> 25

\* --------------------------------------------------------------------------
\* Level data (module @/assets/levels, consumed through loadLevel(index)).
\* A walled corridor of two floor rows with one pillar; a tile code 0 is
\* floor, a code > 0 a wall texture.
\* --------------------------------------------------------------------------

LEVEL_COUNT == 2

LevelWidth == 16

LevelHeight == 4

LevelTiles ==
  [ty \in 0..(LevelHeight - 1) |->
    [tx \in 0..(LevelWidth - 1) |->
      IF ty = 0 \/ ty = LevelHeight - 1 \/ tx = 0 \/ tx = LevelWidth - 1 THEN 1
      ELSE IF tx = 6 /\ ty = 2 THEN 2
      ELSE 0]]

\* ParsedLevel returned by loadLevel(index) of @/assets/levels.
ParsedLevel(index) ==
  [ width  |-> LevelWidth,
    height |-> LevelHeight,
    tiles  |-> LevelTiles,
    playerStart |-> [x |-> 1, y |-> 1, angle |-> [x |-> 1, y |-> 0]],
    name   |-> index + 1 ]

\* canvas.getBoundingClientRect() until the canvas is laid out anew: the
\* viewport, in px.
ViewW == 640

ViewH == 300

\* Math.atan2(dy, dx), kept as the direction vector; atan2(0, 0) is angle 0.
Atan2(dy, dx) == IF dx = 0 /\ dy = 0 THEN [x |-> 1, y |-> 0] ELSE [x |-> dx, y |-> dy]

\* cos(angle) * k and sin(angle) * k for a direction vector.
CosTimes(a, k) == TruncDiv(a.x * k, Hypot(a.x, a.y))

SinTimes(a, k) == TruncDiv(a.y * k, Hypot(a.x, a.y))

\* v[px/s] * dt[ms] as a displacement in units.
Travel(v, dt) == TruncDiv(v * dt, 50)

\* n copies of item appended to seq (n pushes).
PushN(seq, n, item) == seq \o [i \in 1..n |-> item]

\* lo + Math.random() * span, the random number given in permille.
RandRange(lo, span, r) == lo + (span * r) \div 1000

\* --------------------------------------------------------------------------
\* State
\* --------------------------------------------------------------------------

VARIABLES
  eng,        \* scalar private fields of DoomEngine
  player,     \* this.player
  enemies,    \* this.enemies
  bullets,    \* this.bullets
  pickups,    \* this.pickups
  particles,  \* this.particles
  decals,     \* this.decals
  lights,     \* this.lights
  input,      \* this.input (InputState)
  audio,      \* this.audio (AudioManager)
  clock,      \* performance.now() of the browser, ms
  rafQueue,   \* animation-frame callbacks requested and not yet run or cancelled
  host,       \* what the host received through onState
  log         \* history of the last step, for stating properties

vars == <<eng, player, enemies, bullets, pickups, particles, decals, lights,
          input, audio, clock, rafQueue, host, log>>

\* The engine-side state as one value; the handlers below are functions of it.
World ==
  [ eng |-> eng, player |-> player, enemies |-> enemies, bullets |-> bullets,
    pickups |-> pickups, particles |-> particles, decals |-> decals,
    lights |-> lights, audio |-> audio, rafQueue |-> rafQueue, host |-> host,
    log |-> log ]

\* createInputState()
createInputState ==
  [ forward |-> FALSE, back |-> FALSE, left |-> FALSE, right |-> FALSE,
    fire |-> FALSE, use |-> FALSE,
    joystickX |-> 0, joystickY |-> 0, joystickActive |-> FALSE,
    aimX |-> 0, aimY |-> 0, aimActive |-> FALSE ]

NoSnapshot == [status |-> "none"]

\* History record written by every step (not program state).
\*   op         the handler that ran last
\*   dt         the dt handed to update() by the last loop() call
\*   ticked     loop() calls of the last step that reached update()
\*   simulated  update() ran its simulation pass in the last step
\*   shots      player bullets created by the last step
\*   ammo0      player.ammo when the last update() began
\*   fire0      input.fire when the last update() began
\*   sinceShot  simulated ms between the two most recent player shots
\*              (-1: fewer than two shots since level load)
\*   lastShot   simulated ms elapsed since the most recent player shot
\*   crossed    health went from > 0 to <= 0 through damage in the last update()
\*   partPush / decalReq  particles pushed / decals requested by the last step
\*   partPeak / decalPeak  pool lengths just before their trimming pass
\*   partOver   some tick since the level was loaded found more than
\*              MAX_PARTICLES particles before trimming
\*   applied    ids of the pickups whose effect the last step applied
\*   everApplied ids of the pickups applied since the level was loaded
\*   reapplied  the last step applied a pickup that had been applied before
\*   ammoGain   ammo added by pickups in the last step
\*   nextId     next pickup id
\*   waveAsked / waveMade / waveNulls  enemies asked for / created / skipped by
\*              the spawnWave call of the last step (all 0: no such call)
\*   spawned    positions returned by getRandomSpawnPosition in the last step,
\*              each with the player position at sampling time
\*   nulls      getRandomSpawnPosition calls of the last step that returned null
\*   emitted    the last step delivered a snapshot
\*   hits       the player-bullet hits on enemies of the last tick, in order:
\*              the enemy's index and type, the bullet's damage, the enemy's
\*              hp before and after, alive and hitFlash after, kills and
\*              score before and after, the bullet's life after
\*   bulletsIn  this.bullets.length when the last updateBullets() began
\*   alive0 / wave0  living enemies and wave number when the last update() began
\*   idle       simulated ms of the consecutive ticks, up to the last one,
\*              that began with no living enemy, since the last spawnWave
\*   spawnIdle  idle when spawnWave was last called
\*   deathDt    dt of the tick in which the living roster of the current
\*              countdown became empty (0: it was empty when the tick began)
\*   spawnAlive living enemies when spawnWave was last called
\*   emits      the emitState calls of the last step, in order: forced or
\*              not, delivered or not, ms since the previous delivery
\*   halted     stop() has returned and start() has not begun a run since
\*   pre        the player, enemies, bullets and lights when the last update()
\*              began
\*   attacks    the enemy attacks of the last update(), in order
\*   threw      the last loop() call ended in an exception thrown by update()
\*   fates      one record per bullet handled by the last updateBullets(), in
\*              list order: its kind, position and life after the move and
\*              the wall test, whether it is in a wall, the enemy it damaged
\*              (0: none), the enemies alive when it was handled, whether
\*              it damaged the player, its life at the end
\*   shotAngle  player.angle used by the last shoot()
\*   armor      maxHealth and health before and after each armor pickup
\*              applied by the last step
NoLog ==
  [ op |-> "init", dt |-> 0, ticked |-> 0, simulated |-> FALSE,
    shots |-> 0, ammo0 |-> 0, fire0 |-> FALSE,
    sinceShot |-> -1, lastShot |-> -1, crossed |-> FALSE,
    partPush |-> 0, decalReq |-> 0, partPeak |-> 0, decalPeak |-> 0, partOver |-> FALSE,
    applied |-> <<>>, everApplied |-> {}, reapplied |-> FALSE,
    ammoGain |-> 0, nextId |-> 1,
    waveAsked |-> 0, waveMade |-> 0, waveNulls |-> 0,
    spawned |-> <<>>, nulls |-> 0,
    emitted |-> FALSE,
    hits |-> <<>>, bulletsIn |-> 0,
    alive0 |-> 0, wave0 |-> 1, idle |-> 0, spawnIdle |-> 0, deathDt |-> 0,
    spawnAlive |-> 0, emits |-> <<>>, halted |-> FALSE,
    pre |-> [x |-> 0, y |-> 0, walkCycle |-> 0, maxHealth |-> 0, health |-> 0,
             enemies |-> <<>>, bullets |-> <<>>, lights |-> <<>>],
    attacks |-> <<>>, fates |-> <<>>, threw |-> FALSE,
    shotAngle |-> [x |-> 1, y |-> 0], armor |-> <<>> ]

\* Per-step fields of the history cleared at the start of a step.
BeginStep(w, op) ==
  [w EXCEPT !.log = [@ EXCEPT !.op = op, !.ticked = 0, !.simulated = FALSE,
                                !.shots = 0, !.crossed = FALSE,
                                !.partPush = 0, !.decalReq = 0,
                                !.partPeak = 0, !.decalPeak = 0,
                                !.applied = <<>>, !.reapplied = FALSE,
                                !.ammoGain = 0,
                                !.waveAsked = 0, !.waveMade = 0,
                                !.waveNulls = 0,
                                !.spawned = <<>>, !.nulls = 0,
                                !.emitted = FALSE,
                                !.hits = <<>>, !.bulletsIn = 0,
                                !.armor = <<>>, !.emits = <<>>, !.attacks = <<>>,
                                !.fates = <<>>, !.threw = FALSE],
            !.particles = [i \in 1..Len(@) |-> [@[i] EXCEPT !.fresh = FALSE]],
            !.decals = [i \in 1..Len(@) |-> [@[i] EXCEPT !.fresh = FALSE]]]

\* --------------------------------------------------------------------------
\* Tile world
\* --------------------------------------------------------------------------

isWall(w, x, y) ==
  IF ~w.eng.levelLoaded THEN TRUE
  ELSE LET lv == ParsedLevel(w.eng.levelIndex)
           tileX == x \div Tile
           tileY == y \div Tile
       IN  IF tileY < 0 \/ tileY >= lv.height \/ tileX < 0 \/ tileX >= lv.width
           THEN TRUE
           ELSE lv.tiles[tileY][tileX] > 0

\* this.enemies.filter(e => e.alive).length
AliveCount(es) == Cardinality({i \in 1..Len(es) : es[i].alive})

\* --------------------------------------------------------------------------
\* Effect pools: pushes
\* --------------------------------------------------------------------------

\* n this.particles.push(..) calls with the given lifetime.
pushParticles(w, n, life) ==
  [w EXCEPT !.particles = PushN(@, n, [life |-> life, fresh |-> TRUE]),
            !.log.partPush = @ + n]

\* this.decals.push(..)
pushDecal(w, type, alpha) ==
  [w EXCEPT !.decals = Append(@, [type |-> type, alpha |-> alpha, fresh |-> TRUE])]

\* if (this.decals.length < MAX_DECALS) this.decals.push(..)
pushDecalIfRoom(w, type, alpha) ==
  IF Len(w.decals) < MAX_DECALS THEN pushDecal(w, type, alpha) ELSE w

\* this.lights.push(..); initial keeps the intensity the light was pushed
\* with (history).
pushLight(w, intensity) ==
  [w EXCEPT !.lights = Append(@, [life |-> 50, maxLife |-> 50, intensity |-> intensity,
                                  initial |-> intensity])]

spawnWallHitEffect(w, rnd) ==
  LET w1 == pushParticles(w, 12, RandRange(200, 200, rnd.life))
      w2 == pushDecalIfRoom([w1 EXCEPT !.log.decalReq = @ + 1], "crack", 6000)
  IN  pushLight(w2, 8000)

spawnBloodEffect(w, rnd) ==
  LET w1 == pushParticles(w, 15, RandRange(400, 400, rnd.life))
  IN  pushDecalIfRoom([w1 EXCEPT !.log.decalReq = @ + 1], "blood", 7000)

\* killEnemy without enemy.alive = false.
killEnemy_staysAlive(w, i, rnd) ==
  LET e  == w.enemies[i]
      w1 == [w EXCEPT !.eng.kills = @ + 1,
                      !.eng.score = @ + getEnemyScore(e.type),
                      !.eng.screenShake = Min(@ + 20, 60)]
      w2 == pushParticles(w1, 25, RandRange(500, 500, rnd.life))
      w3 == pushParticles(w2, 6, RandRange(1500, 1000, rnd.life))
      w4 == pushDecal([w3 EXCEPT !.log.decalReq = @ + 1], "blood", 8000)
  IN  IF rnd.drop = "none" THEN w4
      ELSE [w4 EXCEPT !.pickups = Append(@, [x |-> e.x, y |-> e.y, type |-> rnd.drop,
                                             amount |-> 25, collected |-> FALSE,
                                             id |-> w4.log.nextId]),
                      !.log.nextId = @ + 1]

\* killEnemy(enemy), enemy = this.enemies[i]
killEnemy(w, i, rnd) ==
  LET e  == w.enemies[i]
      w1 == [w EXCEPT !.enemies[i].alive = FALSE,
                      !.eng.kills = @ + 1,
                      !.eng.score = @ + getEnemyScore(e.type),
                      !.eng.screenShake = Min(@ + 20, 60)]
      w2 == pushParticles(w1, 25, RandRange(500, 500, rnd.life))
      w3 == pushParticles(w2, 6, RandRange(1500, 1000, rnd.life))
      w4 == pushDecal([w3 EXCEPT !.log.decalReq = @ + 1], "blood", 8000)
  IN  IF rnd.drop = "none" THEN w4
      ELSE [w4 EXCEPT !.pickups = Append(@, [x |-> e.x, y |-> e.y, type |-> rnd.drop,
                                             amount |-> 25, collected |-> FALSE,
                                             id |-> w4.log.nextId]),
                      !.log.nextId = @ + 1]

\* --------------------------------------------------------------------------
\* Player
\* --------------------------------------------------------------------------

\* History: a player bullet was created.
NoteShot(w) ==
  [w EXCEPT !.log.shots = @ + 1,
            !.log.shotAngle = w.player.angle,
            !.log.sinceShot = w.log.lastShot,
            !.log.lastShot = 0]

shoot(w, rnd) ==
  LET a  == w.player.angle
      w1 == [w EXCEPT !.player.ammo = @ - 1,
                      !.eng.screenShake = Min(@ + 5, 30),
                      !.bullets = Append(@, [x |-> w.player.x + CosTimes(a, 25 * PX),
                                             y |-> w.player.y + SinTimes(a, 25 * PX),
                                             vx |-> CosTimes(a, BULLET_SPEED),
                                             vy |-> SinTimes(a, BULLET_SPEED),
                                             damage |-> 22, isEnemy |-> FALSE,
                                             life |-> BULLET_LIFE])]
      w2 == pushLight(NoteShot(w1), 10000)
      w3 == pushParticles(w2, 8, RandRange(80, 50, rnd.life))
  IN  pushParticles(w3, 1, 2000)

updatePlayerAngle(w) ==
  LET screenX == w.player.x - w.eng.cameraX
      screenY == w.player.y - w.eng.cameraY
  IN  [w EXCEPT !.player.angle = Atan2(w.eng.mouseY - screenY, w.eng.mouseX - screenX)]

\* MoveVector with the held keys added to an active joystick's vector.
MoveVector_keysAdded(inp) ==
  LET kx  == (IF inp.right THEN 1000 ELSE 0) - (IF inp.left THEN 1000 ELSE 0)
      ky  == (IF inp.back THEN 1000 ELSE 0) - (IF inp.forward THEN 1000 ELSE 0)
      mx0 == IF inp.joystickActive THEN inp.joystickX + kx ELSE kx
      my0 == IF inp.joystickActive THEN inp.joystickY + ky ELSE ky
      len == Hypot(mx0, my0)
  IN  IF (mx0 # 0 \/ my0 # 0) /\ len > 1000
      THEN [x |-> TruncDiv(mx0 * 1000, len), y |-> TruncDiv(my0 * 1000, len)]
      ELSE [x |-> mx0, y |-> my0]

\* The movement vector of updatePlayer, in permille, after renormalisation.
MoveVector(inp) ==
  LET mx0 == IF inp.joystickActive THEN inp.joystickX
             ELSE (IF inp.right THEN 1000 ELSE 0) - (IF inp.left THEN 1000 ELSE 0)
      my0 == IF inp.joystickActive THEN inp.joystickY
             ELSE (IF inp.back THEN 1000 ELSE 0) - (IF inp.forward THEN 1000 ELSE 0)
      len == Hypot(mx0, my0)
  IN  IF (mx0 # 0 \/ my0 # 0) /\ len > 1000
      THEN [x |-> TruncDiv(mx0 * 1000, len), y |-> TruncDiv(my0 * 1000, len)]
      ELSE [x |-> mx0, y |-> my0]

\* updatePlayer firing without the test this.player.ammo > 0.
updatePlayer_noAmmoTest(w, inp, dt, rnd) ==
  LET mv   == MoveVector(inp)
      newX == w.player.x + TruncDiv(mv.x * w.player.speed * dt, 50000)
      newY == w.player.y + TruncDiv(mv.y * w.player.speed * dt, 50000)
      w0   == IF mv.x # 0 \/ mv.y # 0 THEN [w EXCEPT !.player.walkCycle = @ + dt * 12] ELSE w
      w1   == IF ~isWall(w0, newX, w0.player.y) THEN [w0 EXCEPT !.player.x = newX] ELSE w0
      w2   == IF ~isWall(w1, w1.player.x, newY) THEN [w1 EXCEPT !.player.y = newY] ELSE w1
      w3   == [w2 EXCEPT !.eng.fireCooldown = Max(0, @ - dt),
                         !.eng.hitFlash = Max(0, @ - dt)]
      w4   == IF inp.fire /\ w3.eng.fireCooldown <= 0
              THEN [shoot(w3, rnd) EXCEPT !.eng.fireCooldown = FIRE_RATE]
              ELSE w3
  IN  IF inp.aimActive
      THEN [w4 EXCEPT !.player.angle =
              Atan2(inp.aimY - (w4.player.y - w4.eng.cameraY),
                    inp.aimX - (w4.player.x - w4.eng.cameraX))]
      ELSE updatePlayerAngle(w4)

updatePlayer(w, inp, dt, rnd) ==
  LET mv   == MoveVector(inp)
      newX == w.player.x + TruncDiv(mv.x * w.player.speed * dt, 50000)
      newY == w.player.y + TruncDiv(mv.y * w.player.speed * dt, 50000)
      w0   == IF mv.x # 0 \/ mv.y # 0 THEN [w EXCEPT !.player.walkCycle = @ + dt * 12] ELSE w
      w1   == IF ~isWall(w0, newX, w0.player.y) THEN [w0 EXCEPT !.player.x = newX] ELSE w0
      w2   == IF ~isWall(w1, w1.player.x, newY) THEN [w1 EXCEPT !.player.y = newY] ELSE w1
      w3   == [w2 EXCEPT !.eng.fireCooldown = Max(0, @ - dt),
                         !.eng.hitFlash = Max(0, @ - dt)]
      w4   == IF inp.fire /\ w3.eng.fireCooldown <= 0 /\ w3.player.ammo > 0
              THEN [shoot(w3, rnd) EXCEPT !.eng.fireCooldown = FIRE_RATE]
              ELSE w3
  IN  IF inp.aimActive
      THEN [w4 EXCEPT !.player.angle =
              Atan2(inp.aimY - (w4.player.y - w4.eng.cameraY),
                    inp.aimX - (w4.player.x - w4.eng.cameraX))]
      ELSE updatePlayerAngle(w4)

\* --------------------------------------------------------------------------
\* Enemies
\* --------------------------------------------------------------------------

\* History: the player takes d damage.
damagePlayer(w, d) ==
  [w EXCEPT !.player.health = @ - d,
            !.log.crossed = @ \/ (w.player.health > 0 /\ w.player.health - d <= 0)]

\* moveEnemy(enemy, dx, dy, dist, dt), enemy = this.enemies[i].  A zero dist
\* (NaN in the engine) is left as no move.
\* With dist = 0 both dx / dist and dy / dist are 0 / 0 = NaN, so newX and
\* newY are NaN: isWall(NaN, enemy.y) finds no tile and answers false, which
\* makes enemy.x NaN, and isWall(NaN, NaN) then reads tiles[NaN][NaN] and
\* throws a TypeError out of update().
moveEnemy(w, i, dx, dy, dist, dt) ==
  LET e     == w.enemies[i]
      speed == ENEMY_TYPES[e.type].speed
      moveX == TruncDiv(dx * speed * dt, dist * 50)
      moveY == TruncDiv(dy * speed * dt, dist * 50)
      newX  == e.x + moveX
      newY  == e.y + moveY
      w1    == IF ~isWall(w, newX, e.y) THEN [w EXCEPT !.enemies[i].x = newX] ELSE w
  IN  IF dist = 0 THEN [w EXCEPT !.enemies[i].xNaN = TRUE, !.log.threw = TRUE]
      ELSE IF ~isWall(w1, w1.enemies[i].x, newY) THEN [w1 EXCEPT !.enemies[i].y = newY] ELSE w1

enemyShoot(w, i) ==
  LET e     == w.enemies[i]
      size  == ENEMY_TYPES[e.type].size * PX
      a     == Atan2(w.player.y - e.y, w.player.x - e.x)
      speed == IF e.type = "spitter" THEN 350 ELSE 450
      w1    == [w EXCEPT !.bullets = Append(@, [x |-> e.x + CosTimes(a, size),
                                                y |-> e.y + SinTimes(a, size),
                                                vx |-> CosTimes(a, speed),
                                                vy |-> SinTimes(a, speed),
                                                damage |-> ENEMY_TYPES[e.type].damage,
                                                isEnemy |-> TRUE, life |-> 3000])]
  IN  pushLight(w1, 7000)

\* History: this.enemies[i] attacks; cd0 is its cooldown when the tick began,
\* d2 its squared distance to the player, since the simulated ms since its
\* previous attack (-1: none).
NoteAttack(w, wPre, i, d2) ==
  [w EXCEPT !.log.attacks = Append(@, [enemy |-> i, type |-> w.enemies[i].type,
                                       cd0 |-> wPre.enemies[i].attackCooldown,
                                       d2 |-> d2,
                                       since |-> w.enemies[i].sinceAttack]),
            !.enemies[i].sinceAttack = 0]

\* updateEnemy whose melee branch does not test enemy.attackCooldown <= 0.
updateEnemy_everyFrame(w, i, dt) ==
  LET w1   == [w EXCEPT !.enemies[i].attackCooldown = Max(0, @ - dt),
                        !.enemies[i].hitFlash = Max(0, @ - dt),
                        !.enemies[i].sinceAttack = IF @ < 0 THEN @ ELSE @ + dt]
      e    == w1.enemies[i]
      t    == ENEMY_TYPES[e.type]
      dx   == w1.player.x - e.x
      dy   == w1.player.y - e.y
      d2   == Dist2(dx, dy)
      dist == Hypot(dx, dy)
      r2   == (t.attackRange * PX) * (t.attackRange * PX)
  IN  IF IsRanged(e.type)
      THEN LET w2 == IF d2 > (180 * PX) * (180 * PX) THEN moveEnemy(w1, i, dx, dy, dist, dt)
                     ELSE IF d2 < (120 * PX) * (120 * PX) THEN moveEnemy(w1, i, -dx, -dy, dist, dt)
                     ELSE w1
           IN  IF d2 < r2 /\ e.attackCooldown <= 0
               THEN [NoteAttack(enemyShoot(w2, i), w, i, d2) EXCEPT
                       !.enemies[i].attackCooldown = IF e.type = "spitter" THEN 2000 ELSE 1200]
               ELSE w2
      ELSE IF d2 > r2 THEN moveEnemy(w1, i, dx, dy, dist, dt)
           ELSE [NoteAttack(damagePlayer(w1, t.damage), w, i, d2) EXCEPT
                   !.enemies[i].attackCooldown = 800,
                   !.eng.hitFlash = 300,
                   !.eng.screenShake = Min(@ + 20, 60)]

\* The body of the for loop of updateEnemies for this.enemies[i].
updateEnemy(w, i, dt) ==
  LET w1   == [w EXCEPT !.enemies[i].attackCooldown = Max(0, @ - dt),
                        !.enemies[i].hitFlash = Max(0, @ - dt),
                        !.enemies[i].sinceAttack = IF @ < 0 THEN @ ELSE @ + dt]
      e    == w1.enemies[i]
      t    == ENEMY_TYPES[e.type]
      dx   == w1.player.x - e.x
      dy   == w1.player.y - e.y
      d2   == Dist2(dx, dy)
      dist == Hypot(dx, dy)
      r2   == (t.attackRange * PX) * (t.attackRange * PX)
  IN  IF IsRanged(e.type)
      THEN LET w2 == IF e.xNaN THEN w1
                     ELSE IF d2 > (180 * PX) * (180 * PX) THEN moveEnemy(w1, i, dx, dy, dist, dt)
                     ELSE IF d2 < (120 * PX) * (120 * PX) THEN moveEnemy(w1, i, -dx, -dy, dist, dt)
                     ELSE w1
           IN  IF w2.log.threw THEN w2
               ELSE IF ~e.xNaN /\ d2 < r2 /\ e.attackCooldown <= 0
               THEN [NoteAttack(enemyShoot(w2, i), w, i, d2) EXCEPT
                       !.enemies[i].attackCooldown = IF e.type = "spitter" THEN 2000 ELSE 1200]
               ELSE w2
      ELSE IF ~e.xNaN /\ d2 > r2 THEN moveEnemy(w1, i, dx, dy, dist, dt)
           ELSE IF e.attackCooldown <= 0
                THEN [NoteAttack(damagePlayer(w1, t.damage), w, i, d2) EXCEPT
                        !.enemies[i].attackCooldown = 800,
                        !.eng.hitFlash = 300,
                        !.eng.screenShake = Min(@ + 20, 60)]
                ELSE w1

RECURSIVE updateEnemiesFrom(_, _, _)
updateEnemiesFrom(w, i, dt) ==
  IF i > Len(w.enemies) \/ w.log.threw THEN w
  ELSE IF ~w.enemies[i].alive THEN updateEnemiesFrom(w, i + 1, dt)
  ELSE updateEnemiesFrom(updateEnemy(w, i, dt), i + 1, dt)

updateEnemies(w, dt) == updateEnemiesFrom(w, 1, dt)

\* --------------------------------------------------------------------------
\* Bullets
\* --------------------------------------------------------------------------

\* FirstEnemyHit without the alive test.
RECURSIVE FirstEnemyHit_hitsDead(_, _, _)
FirstEnemyHit_hitsDead(w, b, i) ==
  IF i > Len(w.enemies) THEN 0
  ELSE LET e    == w.enemies[i]
           size == ENEMY_TYPES[e.type].size * PX
       IN  IF ~e.xNaN /\ Dist2(b.x - e.x, b.y - e.y) < size * size THEN i
           ELSE FirstEnemyHit_hitsDead(w, b, i + 1)

\* Index of the first living enemy whose size radius contains bullet b (0: none).
RECURSIVE FirstEnemyHit(_, _, _)
FirstEnemyHit(w, b, i) ==
  IF i > Len(w.enemies) THEN 0
  ELSE LET e    == w.enemies[i]
           size == ENEMY_TYPES[e.type].size * PX
       IN  IF e.alive /\ ~e.xNaN /\ Dist2(b.x - e.x, b.y - e.y) < size * size THEN i
           ELSE FirstEnemyHit(w, b, i + 1)

\* History: bullet j hit enemy i; `before` is the world just before the hit.
NoteHit(w, before, j, i) ==
  [w EXCEPT !.log.hits =
     Append(@, [ enemy |-> i, type |-> w.enemies[i].type,
                 dmg |-> before.bullets[j].damage,
                 hp0 |-> before.enemies[i].hp, hp1 |-> w.enemies[i].hp,
                 alive1 |-> w.enemies[i].alive, flash1 |-> w.enemies[i].hitFlash,
                 kills0 |-> before.eng.kills, kills1 |-> w.eng.kills,
                 score0 |-> before.eng.score, score1 |-> w.eng.score,
                 life1 |-> w.bullets[j].life ])]

\* History: what became of this.bullets[j] in updateBullets.  wB is the world
\* after its move and wall test, hit the enemy it hit (0: none), wC the world
\* after the enemy loop, w the world after the player test.
NoteBullet(w, wB, wC, j, hit) ==
  [w EXCEPT !.log.fates =
     Append(@, [ isEnemy |-> wB.bullets[j].isEnemy,
                 x |-> wB.bullets[j].x, y |-> wB.bullets[j].y,
                 damage |-> wB.bullets[j].damage,
                 wall |-> isWall(wB, wB.bullets[j].x, wB.bullets[j].y),
                 life |-> wB.bullets[j].life,
                 enemy |-> hit,
                 alive0 |-> {i \in 1..Len(wB.enemies) : wB.enemies[i].alive},
                 player |-> w.player.health # wC.player.health,
                 life1 |-> w.bullets[j].life ])]

\* updateBullet whose enemy loop also runs for enemy bullets.
updateBullet_friendlyFire(w, j, dt, rnd) ==
  LET b0 == w.bullets[j]
      b1 == [b0 EXCEPT !.x = @ + Travel(b0.vx, dt),
                       !.y = @ + Travel(b0.vy, dt),
                       !.life = @ - dt]
      wA == [w EXCEPT !.bullets[j] = b1]
      wB == IF isWall(wA, b1.x, b1.y)
            THEN spawnWallHitEffect([wA EXCEPT !.bullets[j].life = 0], rnd)
            ELSE wA
      hit == FirstEnemyHit(wB, b1, 1)
      did == wB.bullets[j].life > 0 /\ hit # 0
      wC == IF did
            THEN LET w1 == [wB EXCEPT !.enemies[hit].hp = @ - b1.damage,
                                      !.enemies[hit].hitFlash = 100,
                                      !.bullets[j].life = 0]
                     w2 == spawnBloodEffect(w1, rnd)
                 IN  NoteHit(IF w2.enemies[hit].hp <= 0 THEN killEnemy(w2, hit, rnd) ELSE w2,
                             wB, j, hit)
            ELSE wB
      wD == IF b1.isEnemy /\ wC.bullets[j].life > 0
               /\ Dist2(b1.x - wC.player.x, b1.y - wC.player.y) < (PLAYER_SIZE * PX) * (PLAYER_SIZE * PX)
            THEN spawnBloodEffect([damagePlayer(wC, b1.damage) EXCEPT
                                     !.bullets[j].life = 0,
                                     !.eng.hitFlash = 300,
                                     !.eng.screenShake = Min(@ + 30, 80)], rnd)
            ELSE wC
  IN  NoteBullet(wD, wB, wC, j, IF did THEN hit ELSE 0)

\* updateBullet without bullet.life = 0 on an enemy hit.
updateBullet_bulletSurvives(w, j, dt, rnd) ==
  LET b0 == w.bullets[j]
      b1 == [b0 EXCEPT !.x = @ + Travel(b0.vx, dt),
                       !.y = @ + Travel(b0.vy, dt),
                       !.life = @ - dt]
      wA == [w EXCEPT !.bullets[j] = b1]
      wB == IF isWall(wA, b1.x, b1.y)
            THEN spawnWallHitEffect([wA EXCEPT !.bullets[j].life = 0], rnd)
            ELSE wA
      hit == FirstEnemyHit(wB, b1, 1)
      wC == IF ~b1.isEnemy /\ wB.bullets[j].life > 0 /\ hit # 0
            THEN LET w1 == [wB EXCEPT !.enemies[hit].hp = @ - b1.damage,
                                      !.enemies[hit].hitFlash = 100]
                     w2 == spawnBloodEffect(w1, rnd)
                 IN  NoteHit(IF w2.enemies[hit].hp <= 0 THEN killEnemy(w2, hit, rnd) ELSE w2,
                             wB, j, hit)
            ELSE wB
      wD == IF b1.isEnemy /\ wC.bullets[j].life > 0
               /\ Dist2(b1.x - wC.player.x, b1.y - wC.player.y) < (PLAYER_SIZE * PX) * (PLAYER_SIZE * PX)
            THEN spawnBloodEffect([damagePlayer(wC, b1.damage) EXCEPT
                                     !.bullets[j].life = 0,
                                     !.eng.hitFlash = 300,
                                     !.eng.screenShake = Min(@ + 30, 80)], rnd)
            ELSE wC
  IN  NoteBullet(wD, wB, wC, j,
                 IF ~b1.isEnemy /\ wB.bullets[j].life > 0 /\ hit # 0 THEN hit ELSE 0)

\* The body of the for loop of updateBullets for this.bullets[j].
updateBullet(w, j, dt, rnd) ==
  LET b0 == w.bullets[j]
      b1 == [b0 EXCEPT !.x = @ + Travel(b0.vx, dt),
                       !.y = @ + Travel(b0.vy, dt),
                       !.life = @ - dt]
      wA == [w EXCEPT !.bullets[j] = b1]
      wB == IF isWall(wA, b1.x, b1.y)
            THEN spawnWallHitEffect([wA EXCEPT !.bullets[j].life = 0], rnd)
            ELSE wA
      hit == FirstEnemyHit(wB, b1, 1)
      wC == IF ~b1.isEnemy /\ wB.bullets[j].life > 0 /\ hit # 0
            THEN LET w1 == [wB EXCEPT !.enemies[hit].hp = @ - b1.damage,
                                      !.enemies[hit].hitFlash = 100,
                                      !.bullets[j].life = 0]
                     w2 == spawnBloodEffect(w1, rnd)
                 IN  NoteHit(IF w2.enemies[hit].hp <= 0 THEN killEnemy(w2, hit, rnd) ELSE w2,
                             wB, j, hit)
            ELSE wB
      wD == IF b1.isEnemy /\ wC.bullets[j].life > 0
               /\ Dist2(b1.x - wC.player.x, b1.y - wC.player.y) < (PLAYER_SIZE * PX) * (PLAYER_SIZE * PX)
            THEN spawnBloodEffect([damagePlayer(wC, b1.damage) EXCEPT
                                     !.bullets[j].life = 0,
                                     !.eng.hitFlash = 300,
                                     !.eng.screenShake = Min(@ + 30, 80)], rnd)
            ELSE wC
  IN  NoteBullet(wD, wB, wC, j,
                 IF ~b1.isEnemy /\ wB.bullets[j].life > 0 /\ hit # 0 THEN hit ELSE 0)

RECURSIVE updateBulletsFrom(_, _, _, _)
updateBulletsFrom(w, j, dt, rnd) ==
  IF j > Len(w.bullets) THEN w
  ELSE updateBulletsFrom(updateBullet(w, j, dt, rnd), j + 1, dt, rnd)

updateBullets(w, dt, rnd) ==
  LET w1 == updateBulletsFrom([w EXCEPT !.log.hits = <<>>, !.log.fates = <<>>,
                                        !.log.bulletsIn = Len(w.bullets)], 1, dt, rnd)
  IN  [w1 EXCEPT !.bullets = SelectSeq(@, LAMBDA b : b.life > 0)]

\* --------------------------------------------------------------------------
\* Pickups
\* --------------------------------------------------------------------------

\* applyPickup whose armor branch does not cap maxHealth at 150.
applyPickup_noCap(w, p) ==
  IF p.type = "health"
  THEN [w EXCEPT !.player.health = Min(w.player.maxHealth, @ + p.amount)]
  ELSE IF p.type = "ammo"
  THEN [w EXCEPT !.player.ammo = @ + p.amount, !.log.ammoGain = @ + p.amount]
  ELSE LET m == w.player.maxHealth + 10
       IN  [w EXCEPT !.player.maxHealth = m,
                     !.player.health = Min(m, @ + 10),
                     !.log.armor = Append(@, [max0 |-> w.player.maxHealth, max1 |-> m,
                                              health0 |-> w.player.health,
                                              health1 |-> Min(m, w.player.health + 10)])]

\* The effect of collecting pickup p on the player.
applyPickup(w, p) ==
  IF p.type = "health"
  THEN [w EXCEPT !.player.health = Min(w.player.maxHealth, @ + p.amount)]
  ELSE IF p.type = "ammo"
  THEN [w EXCEPT !.player.ammo = @ + p.amount, !.log.ammoGain = @ + p.amount]
  ELSE LET m == Min(ARMOR_MAX_HEALTH, w.player.maxHealth + 10)
       IN  [w EXCEPT !.player.maxHealth = m,
                     !.player.health = Min(m, @ + 10),
                     !.log.armor = Append(@, [max0 |-> w.player.maxHealth, max1 |-> m,
                                              health0 |-> w.player.health,
                                              health1 |-> Min(m, w.player.health + 10)])]

\* updatePickup without pickup.collected = true.
updatePickup_noMark(w, k) ==
  LET p == w.pickups[k]
  IN  IF p.collected THEN w
      ELSE IF Dist2(p.x - w.player.x, p.y - w.player.y) < (PICKUP_RADIUS * PX) * (PICKUP_RADIUS * PX)
      THEN pushParticles(applyPickup([w EXCEPT !.log.applied = Append(@, p.id)], p), 10, 400)
      ELSE w

\* The body of the for loop of updatePickups for this.pickups[k].
updatePickup(w, k) ==
  LET p == w.pickups[k]
  IN  IF p.collected THEN w
      ELSE IF Dist2(p.x - w.player.x, p.y - w.player.y) < (PICKUP_RADIUS * PX) * (PICKUP_RADIUS * PX)
      THEN LET w1 == [w EXCEPT !.pickups[k].collected = TRUE,
                               !.log.applied = Append(@, p.id)]
           IN  pushParticles(applyPickup(w1, p), 10, 400)
      ELSE w

RECURSIVE updatePickupsFrom(_, _)
updatePickupsFrom(w, k) ==
  IF k > Len(w.pickups) THEN w
  ELSE updatePickupsFrom(updatePickup(w, k), k + 1)

updatePickups(w) ==
  LET w1 == updatePickupsFrom(w, 1)
  IN  [w1 EXCEPT !.pickups = SelectSeq(@, LAMBDA p : ~p.collected)]

\* --------------------------------------------------------------------------
\* Effect pools: per-tick update
\* --------------------------------------------------------------------------

\* seq.slice(-n)
LastN(seq, n) == IF Len(seq) > n THEN SubSeq(seq, Len(seq) - n + 1, Len(seq)) ELSE seq

updateParticles(w, dt) ==
  LET aged    == [i \in 1..Len(w.particles) |-> [w.particles[i] EXCEPT !.life = @ - dt]]
      trimmed == IF Len(aged) > MAX_PARTICLES THEN LastN(aged, MAX_PARTICLES) ELSE aged
  IN  [w EXCEPT !.particles = SelectSeq(trimmed, LAMBDA p : p.life > 0),
                !.log.partPeak = Len(aged),
                !.log.partOver = @ \/ Len(aged) > MAX_PARTICLES]

updateLights(w, dt) ==
  LET aged == [i \in 1..Len(w.lights) |->
                 LET l == w.lights[i]
                 IN  [l EXCEPT !.life = l.life - dt,
                               !.intensity = TruncDiv((l.life - dt) * l.intensity, l.maxLife)]]
  IN  [w EXCEPT !.lights = SelectSeq(aged, LAMBDA l : l.life > 0)]

\* updateDecals without the slice(-MAX_DECALS).
updateDecals_noSlice(w, dt) ==
  [w EXCEPT !.decals = [i \in 1..Len(w.decals) |->
                          IF w.decals[i].type = "blood"
                          THEN [w.decals[i] EXCEPT !.alpha = Max(2000, @ - dt \div 5)]
                          ELSE w.decals[i]],
            !.log.decalPeak = Len(w.decals)]

updateDecals(w, dt) ==
  LET faded == [i \in 1..Len(w.decals) |->
                  IF w.decals[i].type = "blood"
                  THEN [w.decals[i] EXCEPT !.alpha = Max(2000, @ - dt \div 5)]
                  ELSE w.decals[i]]
  IN  [w EXCEPT !.decals = IF Len(faded) > MAX_DECALS THEN LastN(faded, MAX_DECALS) ELSE faded,
                !.log.decalPeak = Len(faded)]

\* --------------------------------------------------------------------------
\* Spawning
\* --------------------------------------------------------------------------

\* Math.random() outcomes of one step, as a record rnd:
\*   life      permille, stretches every random particle lifetime of the step
\*   drop      outcome of the drop roll of a kill: "none", "health" or "ammo"
\*   etype     permille, picks the enemy type in spawnWave
\*   cooldown  permille, the initial attackCooldown in createEnemy
\*   ptype     permille, picks the pickup type in spawnPickups
\*   spawn, pspawn  the samples seen by the getRandomSpawnPosition calls of
\*             spawnWave / spawnPickups: calls number 0..k-1 use draw a, later
\*             calls draw b.  A draw [rej, bad, good] yields the sample `bad`
\*             in its first rej attempts and `good` afterwards; a sample is
\*             the pair of random numbers (rx, ry) in permille.
\* The angular spread of shoot() and enemyShoot() is taken at its middle
\* outcome, 0 (Math.random() = 0.5).
DrawAt(stream, i) == IF i < stream.k THEN stream.a ELSE stream.b

Null == [ok |-> FALSE]

\* x = Math.random() * (width * TILE_SIZE - TILE_SIZE * 2) + TILE_SIZE, same for y.
SamplePoint(w, r) ==
  LET lv == ParsedLevel(w.eng.levelIndex)
  IN  [ x |-> (r.rx * (lv.width * Tile - Tile * 2)) \div 1000 + Tile,
        y |-> (r.ry * (lv.height * Tile - Tile * 2)) \div 1000 + Tile ]

\* this.level.tiles[tileY]?.[tileX]; -1 stands for undefined.
TileAt(lv, tileX, tileY) ==
  IF tileY < 0 \/ tileY >= lv.height \/ tileX < 0 \/ tileX >= lv.width THEN -1
  ELSE lv.tiles[tileY][tileX]

\* Acceptance by the tile test alone.
spawnAccepts_anyDistance(w, p) ==
  TileAt(ParsedLevel(w.eng.levelIndex), p.x \div Tile, p.y \div Tile) = 0

\* Whether getRandomSpawnPosition accepts the sampled point.
spawnAccepts(w, p) ==
  /\ TileAt(ParsedLevel(w.eng.levelIndex), p.x \div Tile, p.y \div Tile) = 0
  /\ Dist2(p.x - w.player.x, p.y - w.player.y) > (SPAWN_MIN_DIST * PX) * (SPAWN_MIN_DIST * PX)

\* The point sampled by attempt number `attempt` of a search.
AttemptPoint(w, draw, attempt) ==
  SamplePoint(w, IF attempt < draw.rej THEN draw.bad ELSE draw.good)

\* The for loop of getRandomSpawnPosition: the first accepted attempt, or null.
spawnAttempt(w, draw) ==
  LET accepted == {a \in 0..(SPAWN_ATTEMPTS - 1) : spawnAccepts(w, AttemptPoint(w, draw, a))}
  IN  IF accepted = {} THEN Null
      ELSE LET first == CHOOSE a \in accepted : \A c \in accepted : a <= c
               p     == AttemptPoint(w, draw, first)
           IN  [ok |-> TRUE, x |-> p.x, y |-> p.y]

getRandomSpawnPosition(w, draw) ==
  IF ~w.eng.levelLoaded THEN Null ELSE spawnAttempt(w, draw)

\* History: the result of a getRandomSpawnPosition call.
NoteSpawn(w, pos) ==
  IF pos.ok
  THEN [w EXCEPT !.log.spawned = Append(@, [x |-> pos.x, y |-> pos.y,
                                            px |-> w.player.x, py |-> w.player.y])]
  ELSE [w EXCEPT !.log.nulls = @ + 1]

createEnemy(x, y, type, rnd) ==
  [ x |-> x, y |-> y, hp |-> ENEMY_TYPES[type].hp, alive |-> TRUE, type |-> type,
    attackCooldown |-> RandRange(0, 500, rnd.cooldown), hitFlash |-> 0,
    sinceAttack |-> -1, xNaN |-> FALSE ]

\* A types array that has the spitter from wave 3.
WaveTypes_spitterAtThree(wave) ==
  <<"zombie", "zombie", "zombie", "runner">>
  \o (IF wave >= 2 THEN <<"runner", "runner", "zombie">> ELSE <<>>)
  \o (IF wave >= 3 THEN <<"tank", "shooter", "spitter">> ELSE <<>>)
  \o (IF wave >= 4 THEN <<"shooter", "shooter", "spitter">> ELSE <<>>)
  \o (IF wave >= 5 THEN <<"tank", "spitter", "spitter">> ELSE <<>>)

\* The types array built by spawnWave for a wave number.
WaveTypes(wave) ==
  <<"zombie", "zombie", "zombie", "runner">>
  \o (IF wave >= 2 THEN <<"runner", "runner", "zombie">> ELSE <<>>)
  \o (IF wave >= 3 THEN <<"tank", "shooter">> ELSE <<>>)
  \o (IF wave >= 4 THEN <<"shooter", "shooter", "spitter">> ELSE <<>>)
  \o (IF wave >= 5 THEN <<"tank", "spitter", "spitter">> ELSE <<>>)

\* An enemy count that grows by one per wave.
WaveEnemyCount_onePerWave(w) == w.eng.enemiesPerWave + w.eng.wave

\* const enemyCount = this.enemiesPerWave + Math.floor(this.wave * 2)
WaveEnemyCount(w) == w.eng.enemiesPerWave + w.eng.wave * 2

\* The body of the for loop of spawnWave, iteration i.
spawnWaveOne(w, i, rnd) ==
  LET pos   == getRandomSpawnPosition(w, DrawAt(rnd.spawn, i))
      types == WaveTypes(w.eng.wave)
      type  == types[(rnd.etype * Len(types)) \div 1000 + 1]
      w1    == NoteSpawn(w, pos)
  IN  IF pos.ok
      THEN [w1 EXCEPT !.enemies = Append(@, createEnemy(pos.x, pos.y, type, rnd)),
                      !.log.waveMade = @ + 1]
      ELSE [w1 EXCEPT !.log.waveNulls = @ + 1]

RECURSIVE spawnWaveFrom(_, _, _, _)
spawnWaveFrom(w, i, n, rnd) ==
  IF i >= n THEN w ELSE spawnWaveFrom(spawnWaveOne(w, i, rnd), i + 1, n, rnd)

spawnWave(w, rnd) ==
  IF ~w.eng.levelLoaded THEN w
  ELSE LET n  == WaveEnemyCount(w)
           w1 == spawnWaveFrom([w EXCEPT !.log.waveAsked = n, !.log.waveMade = 0,
                                            !.log.waveNulls = 0,
                                            !.log.spawnAlive = AliveCount(w.enemies),
                                            !.log.spawnIdle = w.log.idle,
                                            !.log.idle = 0],
                               0, n, rnd)
       IN  [w1 EXCEPT !.eng.waveInProgress = TRUE]

\* The body of the for loop of spawnPickups, iteration i.
spawnPickupOne(w, i, rnd) ==
  LET pos  == getRandomSpawnPosition(w, DrawAt(rnd.pspawn, i))
      type == IF rnd.ptype < 400 THEN "health"
              ELSE IF rnd.ptype < 800 THEN "ammo" ELSE "armor"
      w1   == NoteSpawn(w, pos)
  IN  IF pos.ok
      THEN [w1 EXCEPT !.pickups = Append(@, [x |-> pos.x, y |-> pos.y, type |-> type,
                                             amount |-> IF type = "ammo" THEN 50 ELSE 25,
                                             collected |-> FALSE, id |-> w1.log.nextId]),
                      !.log.nextId = @ + 1]
      ELSE w1

RECURSIVE spawnPickupsFrom(_, _, _)
spawnPickupsFrom(w, i, rnd) ==
  IF i >= LEVEL_PICKUPS THEN w ELSE spawnPickupsFrom(spawnPickupOne(w, i, rnd), i + 1, rnd)

spawnPickups(w, rnd) ==
  IF ~w.eng.levelLoaded THEN w ELSE spawnPickupsFrom(w, 0, rnd)

\* loadLevel without this.score = 0.
loadLevel_keepsScore(w, index, rnd) ==
  LET lv == ParsedLevel(index)
      w1 == [w EXCEPT
               !.eng.levelIndex = index,
               !.eng.levelLoaded = TRUE,
               !.player = [ x |-> lv.playerStart.x * Tile + Tile \div 2,
                            y |-> lv.playerStart.y * Tile + Tile \div 2,
                            angle |-> lv.playerStart.angle,
                            health |-> 100, maxHealth |-> 100, ammo |-> 250,
                            speed |-> 180, walkCycle |-> 0 ],
               !.enemies = <<>>, !.bullets = <<>>, !.pickups = <<>>,
               !.particles = <<>>, !.decals = <<>>, !.lights = <<>>,
               !.eng.kills = 0, !.eng.wave = 1,
               !.eng.waveTimer = 2000, !.eng.waveInProgress = FALSE,
               !.eng.enemiesPerWave = 8 + index * 4,
               !.eng.screenShake = 0, !.eng.fireCooldown = 0, !.eng.hitFlash = 0,
               !.log.sinceShot = -1, !.log.lastShot = -1, !.log.partOver = FALSE,
               !.log.everApplied = {}, !.log.reapplied = FALSE, !.log.nextId = 1,
               !.log.idle = 0, !.log.deathDt = 0]
  IN  spawnPickups(spawnWave(w1, rnd), rnd)

loadLevel(w, index, rnd) ==
  LET lv == ParsedLevel(index)
      w1 == [w EXCEPT
               !.eng.levelIndex = index,
               !.eng.levelLoaded = TRUE,
               !.player = [ x |-> lv.playerStart.x * Tile + Tile \div 2,
                            y |-> lv.playerStart.y * Tile + Tile \div 2,
                            angle |-> lv.playerStart.angle,
                            health |-> 100, maxHealth |-> 100, ammo |-> 250,
                            speed |-> 180, walkCycle |-> 0 ],
               !.enemies = <<>>, !.bullets = <<>>, !.pickups = <<>>,
               !.particles = <<>>, !.decals = <<>>, !.lights = <<>>,
               !.eng.kills = 0, !.eng.wave = 1, !.eng.score = 0,
               !.eng.waveTimer = 2000, !.eng.waveInProgress = FALSE,
               !.eng.enemiesPerWave = 8 + index * 4,
               !.eng.screenShake = 0, !.eng.fireCooldown = 0, !.eng.hitFlash = 0,
               !.log.sinceShot = -1, !.log.lastShot = -1, !.log.partOver = FALSE,
               !.log.everApplied = {}, !.log.reapplied = FALSE, !.log.nextId = 1,
               !.log.idle = 0, !.log.deathDt = 0]
  IN  spawnPickups(spawnWave(w1, rnd), rnd)

\* --------------------------------------------------------------------------
\* Wave director, camera, snapshot
\* --------------------------------------------------------------------------

\* updateWaves without the countdown (this.waveTimer -= dt).
updateWaves_noCountdown(w, dt, rnd) ==
  LET w1 == IF AliveCount(w.enemies) = 0 /\ w.eng.waveInProgress
            THEN [w EXCEPT !.eng.waveInProgress = FALSE, !.eng.waveTimer = WAVE_SPAWN_DELAY]
            ELSE w
  IN  IF ~w1.eng.waveInProgress /\ w1.eng.waveTimer <= 0
      THEN spawnWave([w1 EXCEPT !.eng.wave = @ + 1], rnd)
      ELSE w1

\* updateWaves without this.waveTimer = WAVE_SPAWN_DELAY.
updateWaves_noRearm(w, dt, rnd) ==
  LET w1 == IF AliveCount(w.enemies) = 0 /\ w.eng.waveInProgress
            THEN [w EXCEPT !.eng.waveInProgress = FALSE,
                           !.log.deathDt = IF w.log.alive0 > 0 THEN dt ELSE 0]
            ELSE w
  IN  IF ~w1.eng.waveInProgress
      THEN LET w2 == [w1 EXCEPT !.eng.waveTimer = @ - dt]
           IN  IF w2.eng.waveTimer <= 0
               THEN spawnWave([w2 EXCEPT !.eng.wave = @ + 1], rnd)
               ELSE w2
      ELSE w1

updateWaves(w, dt, rnd) ==
  LET w1 == IF AliveCount(w.enemies) = 0 /\ w.eng.waveInProgress
            THEN [w EXCEPT !.eng.waveInProgress = FALSE, !.eng.waveTimer = WAVE_SPAWN_DELAY,
                           !.log.deathDt = IF w.log.alive0 > 0 THEN dt ELSE 0]
            ELSE w
  IN  IF ~w1.eng.waveInProgress
      THEN LET w2 == [w1 EXCEPT !.eng.waveTimer = @ - dt]
           IN  IF w2.eng.waveTimer <= 0
               THEN spawnWave([w2 EXCEPT !.eng.wave = @ + 1], rnd)
               ELSE w2
      ELSE w1

\* updateCamera without the clamp to the level.
updateCamera_noClamp(w, dt) ==
  LET lv      == ParsedLevel(w.eng.levelIndex)
      targetX == w.player.x - w.eng.rectW \div 2
      targetY == w.player.y - w.eng.rectH \div 2
      f       == Min(1000, dt * 8)
      camX    == w.eng.cameraX + TruncDiv((targetX - w.eng.cameraX) * f, 1000)
      camY    == w.eng.cameraY + TruncDiv((targetY - w.eng.cameraY) * f, 1000)
      maxX    == lv.width * Tile - w.eng.rectW
      maxY    == lv.height * Tile - w.eng.rectH
  IN  [w EXCEPT !.eng.cameraX = camX, !.eng.cameraY = camY]

updateCamera(w, dt) ==
  LET lv      == ParsedLevel(w.eng.levelIndex)
      targetX == w.player.x - w.eng.rectW \div 2
      targetY == w.player.y - w.eng.rectH \div 2
      f       == Min(1000, dt * 8)
      camX    == w.eng.cameraX + TruncDiv((targetX - w.eng.cameraX) * f, 1000)
      camY    == w.eng.cameraY + TruncDiv((targetY - w.eng.cameraY) * f, 1000)
      maxX    == lv.width * Tile - w.eng.rectW
      maxY    == lv.height * Tile - w.eng.rectH
  IN  IF w.eng.levelLoaded
      THEN [w EXCEPT !.eng.cameraX = Max(0, Min(maxX, camX)),
                     !.eng.cameraY = Max(0, Min(maxY, camY))]
      ELSE [w EXCEPT !.eng.cameraX = camX, !.eng.cameraY = camY]

\* --------------------------------------------------------------------------
\* AudioManager (src/engine/audio.ts)
\* --------------------------------------------------------------------------

startMusic(w) ==
  IF ~w.audio.ctx \/ ~w.audio.unlocked \/ w.audio.music \/ w.audio.muted THEN w
  ELSE [w EXCEPT !.audio.music = TRUE]

stopMusic(w) == IF ~w.audio.music THEN w ELSE [w EXCEPT !.audio.music = FALSE]

\* requestAnimationFrame(this.loop): a handle that names no pending callback.
requestAnimationFrame(w) ==
  LET used == {w.rafQueue[k] : k \in 1..Len(w.rafQueue)} \cup {w.eng.rafId}
      id   == CHOOSE i \in 1..(Len(w.rafQueue) + 2) :
                i \notin used /\ \A j \in 1..(i - 1) : j \in used
  IN  [w EXCEPT !.rafQueue = Append(@, id), !.eng.rafId = id]

cancelAnimationFrame(w, id) ==
  [w EXCEPT !.rafQueue = SelectSeq(@, LAMBDA q : q # id)]

stop(w) ==
  LET w1 == [w EXCEPT !.eng.running = FALSE, !.log.halted = TRUE]
      w2 == IF w1.eng.rafId # 0 THEN cancelAnimationFrame(w1, w1.eng.rafId) ELSE w1
  IN  stopMusic(w2)

\* --------------------------------------------------------------------------
\* Snapshots
\* --------------------------------------------------------------------------

\* The snapshot object built by emitState.
Snapshot(w) ==
  [ level |-> w.eng.levelIndex + 1,
    health |-> w.player.health,
    ammo |-> w.player.ammo,
    kills |-> w.eng.kills,
    soundEnabled |-> w.audio.unlocked,
    muted |-> w.audio.muted,
    status |-> w.eng.status,
    wave |-> w.eng.wave,
    score |-> w.eng.score ]

\* History: a call of emitState, with the time since the last delivery.
NoteEmit(w, now, force, delivered) ==
  [w EXCEPT !.log.emits = Append(@, [force |-> force, delivered |-> delivered,
                                     gap |-> now - w.eng.lastUiUpdate])]

\* this.onState(snapshot): the host keeps the snapshot and, when react is
\* "stop", calls engine.stop() from inside the callback.
onState(w, snapshot, react) ==
  LET w1 == [w EXCEPT !.host = snapshot, !.log.emitted = TRUE]
  IN  IF react = "stop" THEN stop(w1) ELSE w1

\* emitState that delivers whether or not the throttle window has passed.
emitState_noThrottle(w, now, force, react) ==
  onState([NoteEmit(w, now, force, TRUE) EXCEPT !.eng.lastUiUpdate = now], Snapshot(w), react)

emitState(w, now, force, react) ==
  IF ~force /\ now - w.eng.lastUiUpdate < UI_THROTTLE THEN NoteEmit(w, now, force, FALSE)
  ELSE onState([NoteEmit(w, now, force, TRUE) EXCEPT !.eng.lastUiUpdate = now],
               Snapshot(w), react)

\* --------------------------------------------------------------------------
\* Frame loop
\* --------------------------------------------------------------------------

\* History: update() begins its simulation pass.
NoteTick(w, inp, dt) ==
  [w EXCEPT !.log.simulated = TRUE,
            !.log.alive0 = AliveCount(w.enemies),
            !.log.wave0 = w.eng.wave,
            !.log.pre = [x |-> w.player.x, y |-> w.player.y,
                         walkCycle |-> w.player.walkCycle,
                         maxHealth |-> w.player.maxHealth,
                         health |-> w.player.health,
                         enemies |-> w.enemies, bullets |-> w.bullets,
                         lights |-> w.lights],
            !.log.attacks = <<>>,
            !.log.idle = IF AliveCount(w.enemies) = 0 THEN @ + dt ELSE 0,
            !.log.ammo0 = w.player.ammo,
            !.log.fire0 = inp.fire,
            !.log.lastShot = IF @ < 0 THEN @ ELSE Min(@ + dt, 2 * FIRE_RATE)]

\* History: the pickups applied by updatePickups.
NoteApplied(w) ==
  LET ids == w.log.applied
  IN  [w EXCEPT !.log.reapplied =
                   \/ \E k \in 1..Len(ids) : ids[k] \in w.log.everApplied
                   \/ \E k, m \in 1..Len(ids) : k # m /\ ids[k] = ids[m],
                !.log.everApplied = @ \cup {ids[k] : k \in 1..Len(ids)}]

\* this.screenShake = Math.max(0, this.screenShake - dt * 10), in 1/10 per ms
ScreenShakeDecay(w, dt) == [w EXCEPT !.eng.screenShake = Max(0, @ - dt \div 10)]

\* update without the test this.player.health <= 0.
update_noHalt(w, inp, dt, now, rnd) ==
  IF ~w.eng.levelLoaded THEN w
  ELSE emitState(
         ScreenShakeDecay(
           updateCamera(
             updateWaves(
               updateDecals(
                 updateLights(
                   updateParticles(
                     NoteApplied(updatePickups(
                       updateBullets(
                         updateEnemies(
                           updatePlayer(NoteTick(w, inp, dt), inp, dt, rnd),
                           dt),
                         dt, rnd))),
                     dt),
                   dt),
                 dt),
               dt, rnd),
             dt),
           dt),
         now, FALSE, rnd.onState)

\* update() from updateBullets on; a TypeError thrown in updateEnemies
\* leaves update() before it.
updateAfterEnemies(w, dt, now, rnd) ==
  IF w.log.threw THEN [w EXCEPT !.log.simulated = FALSE]
  ELSE emitState(
         ScreenShakeDecay(
           updateCamera(
             updateWaves(
               updateDecals(
                 updateLights(
                   updateParticles(
                     NoteApplied(updatePickups(updateBullets(w, dt, rnd))),
                     dt),
                   dt),
                 dt),
               dt, rnd),
             dt),
           dt),
         now, FALSE, rnd.onState)

update(w, inp, dt, now, rnd) ==
  IF ~w.eng.levelLoaded THEN w
  ELSE IF w.player.health <= 0
  THEN emitState(stopMusic([w EXCEPT !.eng.status = "gameover"]), now, FALSE, rnd.onState)
  ELSE updateAfterEnemies(
         updateEnemies(updatePlayer(NoteTick(w, inp, dt), inp, dt, rnd), dt),
         dt, now, rnd)

\* The dt computed by loop(time).
FrameDt(w, time) == Min(MAX_DT, time - w.eng.lastTime)

\* loop() after update(): render() and the next frame request, not reached
\* when update() threw.
loopAfterUpdate(w) == IF w.log.threw THEN w ELSE requestAnimationFrame(w)

loop(w, inp, time, rnd) ==
  IF ~w.eng.running THEN w
  ELSE LET dt == FrameDt(w, time)
           w1 == [w EXCEPT !.eng.lastTime = time, !.log.dt = dt, !.log.ticked = @ + 1,
                           !.log.threw = FALSE]
       IN  loopAfterUpdate(update(w1, inp, dt, time, rnd))

\* --------------------------------------------------------------------------
\* Public operations
\* --------------------------------------------------------------------------

start(w, inp, now, rnd) ==
  IF w.eng.running THEN w
  ELSE LET w1 == [w EXCEPT !.eng.running = TRUE, !.log.halted = FALSE,
                           !.eng.status = IF w.player.health <= 0 THEN "gameover" ELSE "running",
                           !.eng.lastTime = now]
       IN  loop(startMusic(w1), inp, w1.eng.lastTime, rnd)

\* enableAudio(): audio.unlock() creates the context and sets unlocked.
enableAudio(w, now, rnd) ==
  emitState([w EXCEPT !.audio.ctx = TRUE, !.audio.unlocked = TRUE], now, TRUE, rnd.onState)

\* toggleMute(): audio.toggleMute() flips muted and stops or starts the music.
toggleMute(w, now, rnd) ==
  LET w1 == [w EXCEPT !.audio.muted = ~@]
  IN  emitState(IF w1.audio.muted THEN stopMusic(w1) ELSE startMusic(w1), now, TRUE,
                rnd.onState)

\* setAim(screenX, screenY, active): the engine side (player.angle).
setAim(w, a) ==
  IF a.active
  THEN [w EXCEPT !.player.angle = Atan2(a.y - (w.player.y - w.eng.cameraY),
                                        a.x - (w.player.x - w.eng.cameraX))]
  ELSE w

restartLevel(w, now, rnd) ==
  emitState([loadLevel(w, w.eng.levelIndex, rnd) EXCEPT !.eng.status = "running"], now, TRUE,
            rnd.onState)

nextLevel(w, now, rnd) ==
  emitState([loadLevel(w, (w.eng.levelIndex + 1) % LEVEL_COUNT, rnd) EXCEPT
               !.eng.status = "running"], now, TRUE, rnd.onState)

\* await new Promise(resolve => setTimeout(resolve, 120)) in load(), ms.
LOAD_WAIT == 120

load(w, now, rnd) ==
  emitState([loadLevel(w, 0, rnd) EXCEPT !.eng.status = "ready"], now, TRUE, rnd.onState)

\* --------------------------------------------------------------------------
\* Initial state: the engine after its constructor
\* --------------------------------------------------------------------------

InitEngine ==
  [ levelIndex |-> 0, levelLoaded |-> FALSE, kills |-> 0, wave |-> 1, score |-> 0,
    waveTimer |-> 0, enemiesPerWave |-> 8, waveInProgress |-> FALSE,
    running |-> FALSE, status |-> "loading", lastTime |-> 0, lastUiUpdate |-> 0,
    fireCooldown |-> 0, hitFlash |-> 0, rafId |-> 0, screenShake |-> 0,
    cameraX |-> 0, cameraY |-> 0, mouseX |-> 0, mouseY |-> 0,
    rectW |-> ViewW * PX, rectH |-> ViewH * PX ]

Init ==
  /\ eng = InitEngine
  /\ player = [ x |-> 100 * PX, y |-> 100 * PX, angle |-> [x |-> 1, y |-> 0],
                health |-> 100, maxHealth |-> 100, ammo |-> 250, speed |-> 180,
                walkCycle |-> 0 ]
  /\ enemies = <<>>
  /\ bullets = <<>>
  /\ pickups = <<>>
  /\ particles = <<>>
  /\ decals = <<>>
  /\ lights = <<>>
  /\ input = createInputState
  /\ audio = [ctx |-> FALSE, unlocked |-> FALSE, muted |-> TRUE, music |-> FALSE]
  /\ clock = 0
  /\ rafQueue = <<>>
  /\ host = NoSnapshot
  /\ log = NoLog

\* The engine-side variables take the values of w.
Commit(w) ==
  /\ eng' = w.eng
  /\ player' = w.player
  /\ enemies' = w.enemies
  /\ bullets' = w.bullets
  /\ pickups' = w.pickups
  /\ particles' = w.particles
  /\ decals' = w.decals
  /\ lights' = w.lights
  /\ audio' = w.audio
  /\ rafQueue' = w.rafQueue
  /\ host' = w.host
  /\ log' = w.log

\* --------------------------------------------------------------------------
\* Actions.  R is the set of random outcomes, D the set of frame deltas (ms)
\* and H the horizon of the browser clock (ms) of a specification.
\* --------------------------------------------------------------------------

\* engine.load(onProgress), run to completion.
Load(R) ==
  /\ eng.status = "loading" /\ ~eng.levelLoaded
  /\ \E rnd \in R :
       Commit(load(BeginStep(World, "load"), clock + LOAD_WAIT, rnd))
  /\ clock' = clock + LOAD_WAIT
  /\ input' = input

Start(R) ==
  /\ eng.levelLoaded /\ eng.status # "loading"
  /\ \E rnd \in R : Commit(start(BeginStep(World, "start"), input, clock, rnd))
  /\ UNCHANGED <<clock, input>>

Stop ==
  /\ eng.levelLoaded /\ eng.status # "loading"
  /\ Commit(stop(BeginStep(World, "stop")))
  /\ UNCHANGED <<clock, input>>

RestartLevel(R) ==
  /\ eng.levelLoaded /\ eng.status # "loading"
  /\ \E rnd \in R : Commit(restartLevel(BeginStep(World, "restartLevel"), clock, rnd))
  /\ UNCHANGED <<clock, input>>

NextLevel(R) ==
  /\ eng.levelLoaded /\ eng.status # "loading"
  /\ \E rnd \in R : Commit(nextLevel(BeginStep(World, "nextLevel"), clock, rnd))
  /\ UNCHANGED <<clock, input>>

EnableAudio(R) ==
  /\ eng.levelLoaded /\ eng.status # "loading"
  /\ \E rnd \in R : Commit(enableAudio(BeginStep(World, "enableAudio"), clock, rnd))
  /\ UNCHANGED <<clock, input>>

ToggleMute(R) ==
  /\ eng.levelLoaded /\ eng.status # "loading"
  /\ \E rnd \in R : Commit(toggleMute(BeginStep(World, "toggleMute"), clock, rnd))
  /\ UNCHANGED <<clock, input>>

\* The callbacks queued for this frame run in order with the frame's timestamp.
RECURSIVE runCallbacks(_, _, _, _, _)
runCallbacks(w, n, inp, time, rnd) ==
  IF n = 0 THEN w ELSE runCallbacks(loop(w, inp, time, rnd), n - 1, inp, time, rnd)

\* An animation frame delta ms after the previous step.
Frame(D, R, H) ==
  /\ rafQueue # <<>>
  /\ \E delta \in D, rnd \in R :
       /\ clock + delta <= H
       /\ clock' = clock + delta
       /\ Commit(runCallbacks(BeginStep([World EXCEPT !.rafQueue = <<>>], "frame"),
                              Len(rafQueue), input, clock + delta, rnd))
  /\ input' = input

\* setControl(control, active), for the controls C and the values A.
SetControl(C, A) ==
  /\ eng.levelLoaded /\ eng.status # "loading"
  /\ \E c \in C, active \in A :
       /\ input[c] # active
       /\ input' = [input EXCEPT ![c] = active]
  /\ Commit(BeginStep(World, "setControl"))
  /\ UNCHANGED clock

\* setJoystick(x, y, active), for the vectors J (permille).
SetJoystick(J) ==
  /\ eng.levelLoaded /\ eng.status # "loading"
  /\ \E j \in J :
       /\ <<input.joystickX, input.joystickY, input.joystickActive>> # <<j.x, j.y, j.active>>
       /\ input' = [input EXCEPT !.joystickX = j.x, !.joystickY = j.y,
                                  !.joystickActive = j.active]
  /\ Commit(BeginStep(World, "setJoystick"))
  /\ UNCHANGED clock

\* setAim(screenX, screenY, active), for the targets A (units, canvas-relative).
SetAim(A) ==
  /\ eng.levelLoaded /\ eng.status # "loading"
  /\ \E a \in A :
       /\ <<input.aimX, input.aimY, input.aimActive>> # <<a.x, a.y, a.active>>
       /\ input' = [input EXCEPT !.aimX = a.x, !.aimY = a.y, !.aimActive = a.active,
                                  !.fire = a.active]
       /\ Commit(setAim(BeginStep(World, "setAim"), a))
  /\ UNCHANGED clock

\* handleMouseMove: the pointer moves to a position of M (units, canvas-relative).
MouseMove(M) ==
  /\ \E m \in M :
       /\ <<eng.mouseX, eng.mouseY>> # <<m.x, m.y>>
       /\ LET w1 == [BeginStep(World, "mouseMove") EXCEPT !.eng.mouseX = m.x, !.eng.mouseY = m.y]
          IN  Commit(updatePlayerAngle(w1))
  /\ UNCHANGED <<clock, input>>

\* The window is resized: the canvas is laid out with a new bounding rect
\* and the host calls resize(), which only sizes the drawing buffer.
Resize(V) ==
  /\ \E v \in V :
       /\ <<eng.rectW, eng.rectH>> # <<v.w, v.h>>
       /\ Commit([BeginStep(World, "resize") EXCEPT !.eng.rectW = v.w, !.eng.rectH = v.h])
  /\ UNCHANGED <<clock, input>>

\* --------------------------------------------------------------------------
\* Random outcomes and inputs the specifications draw from
\* --------------------------------------------------------------------------

\* Samples of getRandomSpawnPosition (rx, ry in permille of the sampled range).
FarA == [rx |-> 608, ry |-> 250]     \* floor, 256 px right of the player start

FarB == [rx |-> 990, ry |-> 250]     \* floor, near the right end of the corridor

NearStart == [rx |-> 36, ry |-> 250] \* the player start itself

InPillar == [rx |-> 400, ry |-> 750] \* inside the pillar tile

MidRight == [rx |-> 755, ry |-> 250] \* floor, 322 px right of the player start

MidLeft == [rx |-> 620, ry |-> 250]  \* floor, 261 px right of the player start

\* Draws: accepted at once, after three wall samples, at the last attempt, never.
Direct(p) == [rej |-> 0, bad |-> InPillar, good |-> p]

Retry(p) == [rej |-> 3, bad |-> InPillar, good |-> p]

LastTry(p) == [rej |-> SPAWN_ATTEMPTS - 1, bad |-> NearStart, good |-> p]

Exhaust == [rej |-> SPAWN_ATTEMPTS, bad |-> InPillar, good |-> FarA]

\* A search that samples the right end of the corridor first and the left end
\* afterwards (accepted at whichever end is more than 250 px from the player).
FarEnd == [rej |-> 1, bad |-> FarB, good |-> NearStart]

Every(d) == [k |-> 0, a |-> d, b |-> d]

FirstThen(k, a, b) == [k |-> k, a |-> a, b |-> b]

BaseRnd ==
  [ life |-> 999, drop |-> "none", etype |-> 0, cooldown |-> 0, ptype |-> 0,
    onState |-> "none",
    spawn |-> Every(Direct(FarA)), pspawn |-> Every(Direct(FarB)) ]

\* Pointer positions: the canvas origin and a point right of the player on its row.
MouseRight == [x |-> 380 * PX, y |-> 48 * PX]

\* --------------------------------------------------------------------------
\* Specification: the engine's life cycle and frame loop
\* --------------------------------------------------------------------------

\* Horizon of the browser clock, ms.
MaxClock == 300

SpecDeltas == {0, 50, 200}

Next ==
  \/ Load({BaseRnd})
  \/ Start({BaseRnd})
  \/ Stop
  \/ Frame(SpecDeltas, {BaseRnd}, MaxClock)
  \/ SetControl({"fire"}, BOOLEAN)
  \/ MouseMove({MouseRight})

Spec == Init /\ [][Next]_vars

\* C1: every tick executed by loop(), the first one that start() runs
\* synchronously included, hands update() a dt with 0 < dt <= 0.05 s.
C1_DtPositiveAndClamped ==
  log.ticked > 0 => (0 < log.dt /\ log.dt <= MAX_DT)

\* --------------------------------------------------------------------------
\* Specification: level loads and spawn searches
\* --------------------------------------------------------------------------

\* Horizon of the browser clock, ms.
SpawnClock == 6000

\* Waves whose searches all succeed at once; or waves of which two searches
\* succeed after wall samples and the others exhaust their attempts, with
\* every pickup found at the last attempt after samples next to the player.
SpawnRnd ==
  { [BaseRnd EXCEPT !.spawn = Every(FarEnd)],
    [BaseRnd EXCEPT !.spawn = FirstThen(2, Retry(FarB), Exhaust),
                    !.pspawn = Every(LastTry(FarA))] }

\* While the loop is not running the host may restart the level or skip to
\* the next one, and the player chooses to hold fire and where to aim.
NextSpawn ==
  \/ Load(SpawnRnd)
  \/ Start(SpawnRnd)
  \/ (~eng.running /\ RestartLevel(SpawnRnd))
  \/ (~eng.running /\ NextLevel(SpawnRnd))
  \/ (~eng.running /\ SetControl({"fire"}, {TRUE}))
  \/ (~eng.running /\ MouseMove({MouseRight}))
  \/ Frame({40}, SpawnRnd, SpawnClock)

SpecSpawn == Init /\ [][NextSpawn]_vars

\* --------------------------------------------------------------------------
\* Specification: a horde of zombies meets the walking player
\* --------------------------------------------------------------------------

\* Horizon of the browser clock, ms.
MeleeClock == 1700

\* Ten zombies at MidRight; the fifteen health pickups either at FarA, on the
\* player's way, or at the far end of the corridor.
MeleeRnd ==
  { [BaseRnd EXCEPT !.spawn = Every(Direct(MidRight)), !.pspawn = Every(Direct(FarA))],
    [BaseRnd EXCEPT !.spawn = Every(Direct(MidRight)), !.pspawn = Every(Direct(FarB))] }

NextMelee ==
  \/ Load(MeleeRnd)
  \/ Start(MeleeRnd)
  \/ SetControl({"right"}, BOOLEAN)
  \/ Frame({50}, MeleeRnd, MeleeClock)

SpecMelee == Init /\ [][NextMelee]_vars

\* C2: player.health stays within [0, maxHealth], and the health of every
\* snapshot delivered to the host is not negative.
C2_HealthClamped ==
  /\ 0 <= player.health /\ player.health <= player.maxHealth
  /\ host.status # "none" => host.health >= 0

\* C3: when damage takes the player's health from > 0 to <= 0 during a tick,
\* nothing later in that tick cancels the death: the tick ends with
\* health <= 0, so that the next tick turns status to gameover.
C3_DeathNotCancelled ==
  log.crossed => player.health <= 0

\* History: some pickup was collected by the last step.
C9_Collected == log.op = "frame" /\ Len(log.applied) > 0

\* C9: no pickup's effect is applied to the player twice (neither within one
\* collision pass nor across ticks), and no pickup marked collected is in
\* the pickups list once updatePickups() has run.
C9_PickupAppliedOnce ==
  /\ ~log.reapplied
  /\ \A k \in 1..Len(pickups) : ~pickups[k].collected

\* --------------------------------------------------------------------------
\* Specification: sustained fire at the waves (effect pools, ammunition)
\* --------------------------------------------------------------------------

\* Horizon of the browser clock, ms.
PoolsClock == 21000

\* Zombies spawn at the end of the corridor far from the player; the level
\* pickups lie 256 px right of the player start.
PoolsRnd ==
  { [BaseRnd EXCEPT !.spawn = Every(FarEnd), !.pspawn = Every(Direct(FarA))] }

\* The player chooses what to hold (fire, right) and where to aim before the
\* game is started; frames are 40 ms apart.
NextPools ==
  \/ Load(PoolsRnd)
  \/ Start(PoolsRnd)
  \/ (eng.status = "ready" /\ SetControl({"fire", "right"}, {TRUE}))
  \/ (eng.status = "ready" /\ MouseMove({MouseRight}))
  \/ Frame({40}, PoolsRnd, PoolsClock)

SpecPools == Init /\ [][NextPools]_vars

\* A tick found the decal pool above its capacity before trimming, in a level
\* in which the particle pool had been above its capacity as well.
C4_BothPoolsOverflowed ==
  log.op = "frame" /\ log.decalPeak > MAX_DECALS /\ log.partOver

\* C4: after every update() (in every state a frame can be rendered from)
\* particles.length <= MAX_PARTICLES and decals.length <= MAX_DECALS.
C4_PoolsCapped ==
  Len(particles) <= MAX_PARTICLES /\ Len(decals) <= MAX_DECALS

\* C5: both pools are bounded rings: every particle and every decal spawned
\* during a tick is in its pool after the tick's update, whatever the pool
\* held before (the oldest entries make room; a new entry is never the one
\* discarded).
C5_NewEntriesRetained ==
  log.op = "frame" =>
    /\ Cardinality({i \in 1..Len(particles) : particles[i].fresh}) = log.partPush
    /\ Cardinality({i \in 1..Len(decals) : decals[i].fresh}) = log.decalReq

\* A tick ran with fire held and no ammunition left, the last two shots
\* having been exactly FIRE_RATE apart.
C10_DryFire ==
  /\ log.op = "frame" /\ log.simulated
  /\ log.fire0 /\ log.ammo0 = 0
  /\ log.sinceShot = FIRE_RATE

\* C10: ammo is never negative; a tick creates at most one player bullet and
\* each bullet costs exactly one round (ammo changes otherwise only by ammo
\* pickups); a tick begun with fire held and ammo = 0 creates no bullet and
\* leaves ammo at 0; two consecutive shots are at least FIRE_RATE of
\* simulated time apart.
C10_FiringDiscipline ==
  /\ player.ammo >= 0
  /\ log.shots <= 1
  /\ log.simulated => player.ammo = log.ammo0 - log.shots + log.ammoGain
  /\ (log.simulated /\ log.fire0 /\ log.ammo0 = 0) =>
       (log.shots = 0 /\ player.ammo = log.ammoGain)
  /\ (log.sinceShot = -1 \/ log.sinceShot >= FIRE_RATE)

\* --------------------------------------------------------------------------
\* Claims on SpecSpawn
\* --------------------------------------------------------------------------

\* C6 as stated: every wave N spawned by spawnWave() consists of exactly
\* enemiesPerWave + floor(N * 2) living enemies, enemiesPerWave being
\* 8 + levelIndex * 4.
C6_WaveSizeExact ==
  log.waveAsked > 0 =>
    /\ eng.enemiesPerWave = 8 + eng.levelIndex * 4
    /\ AliveCount(enemies) = eng.enemiesPerWave + 2 * eng.wave

\* A wave after the first, on either level, part of whose spawn searches
\* failed.
C6_PartialLaterWave ==
  /\ log.waveAsked > 0 /\ eng.wave >= 2
  /\ log.waveNulls > 0 /\ AliveCount(enemies) > 0

\* C6 amended: spawnWave() asks for enemiesPerWave + floor(N * 2) enemies
\* (enemiesPerWave = 8 + levelIndex * 4) and the living enemies of wave N are
\* that number minus the spawn searches that returned null: never more, and
\* exactly that number when no search fails.
C6_WaveSizeUpTo ==
  log.waveAsked > 0 =>
    /\ eng.enemiesPerWave = 8 + eng.levelIndex * 4
    /\ log.waveAsked = eng.enemiesPerWave + 2 * eng.wave
    /\ log.waveMade = log.waveAsked - log.waveNulls
    /\ AliveCount(enemies) = log.waveMade

\* Some position was returned by a search that had samples rejected before.
C8_FoundAfterRejections ==
  /\ Len(log.spawned) > 0
  /\ log.op \in {"load", "restartLevel", "nextLevel", "frame"}
  /\ \E k \in 1..Len(log.spawned) :
       <<log.spawned[k].x, log.spawned[k].y>> \in
         { <<SamplePoint(World, FarA).x, SamplePoint(World, FarA).y>>,
           <<SamplePoint(World, NearStart).x, SamplePoint(World, NearStart).y>> }

\* C8: every position returned by getRandomSpawnPosition() is on a floor
\* tile and more than 250 px from where the player was when it was sampled;
\* so are all enemies and level pickups at their creation.
C8_SpawnOnFloorFarFromPlayer ==
  \A k \in 1..Len(log.spawned) :
    LET s == log.spawned[k]
    IN  /\ TileAt(ParsedLevel(eng.levelIndex), s.x \div Tile, s.y \div Tile) = 0
        /\ Dist2(s.x - s.px, s.y - s.py) > (SPAWN_MIN_DIST * PX) * (SPAWN_MIN_DIST * PX)

\* --------------------------------------------------------------------------
\* Specification: waves whose spawn searches all fail, with a fair frame loop
\* --------------------------------------------------------------------------

\* Waves are followed up to this wave number.
MaxWave == 3

\* Horizon of the browser clock, ms.
WavesClock == 20000

\* Every spawn search of a wave exhausts its attempts; the pickup searches
\* succeed or exhaust theirs as well.
WavesRnd ==
  { [BaseRnd EXCEPT !.spawn = Every(Exhaust)],
    [BaseRnd EXCEPT !.spawn = Every(Exhaust), !.pspawn = Every(Exhaust)] }

FrameWaves == eng.wave < MaxWave /\ Frame({50}, WavesRnd, WavesClock)

NextWaves ==
  \/ Load(WavesRnd)
  \/ Start(WavesRnd)
  \/ Stop
  \/ FrameWaves

\* The clock step of FrameWaves: a requested animation frame is delivered.
FrameDue ==
  /\ rafQueue # <<>> /\ eng.wave < MaxWave
  /\ clock + 50 <= WavesClock
  /\ clock' = clock + 50

\* The browser keeps delivering the animation frames that were requested.
SpecWaves == Init /\ [][NextWaves]_vars /\ WF_clock(FrameDue)

\* The last step spawned a wave after the first all of whose searches returned
\* null.
C7_EmptyWaveSpawned ==
  /\ log.op = "frame" /\ eng.wave >= 2
  /\ log.waveAsked > 0 /\ log.waveNulls = log.waveAsked /\ AliveCount(enemies) = 0

\* C7: a spawn search that exhausts its attempts returns null and costs the
\* wave exactly that one enemy (the wave is still started); and a wave with no
\* living enemy, in a running game with a living player, is followed by the
\* next wave unless the loop is stopped.
C7_ExhaustedSearchNeverBlocksWaves ==
  /\ [](log.waveAsked > 0 =>
          /\ log.waveMade + log.waveNulls = log.waveAsked
          /\ log.nulls >= log.waveNulls
          /\ eng.waveInProgress)
  /\ \A n \in 1..(MaxWave - 1) :
       (/\ eng.running /\ eng.status = "running" /\ player.health > 0
        /\ eng.wave = n /\ AliveCount(enemies) = 0)
         ~> (eng.wave > n \/ ~eng.running)

\* --------------------------------------------------------------------------
\* Specification: the standing player fires at the incoming waves
\* --------------------------------------------------------------------------

\* Horizon of the browser clock, ms.
CombatClock == 8000

\* Enemies spawn at the right end of the corridor; a spawnWave call picks
\* zombies (wave 1 and 2) or runners (wave 1 and 2).
CombatRnd ==
  { [BaseRnd EXCEPT !.spawn = Every(FarEnd)],
    [BaseRnd EXCEPT !.spawn = Every(FarEnd), !.etype = 800] }

\* Before the game is started the player may hold fire and aim to the right;
\* frames are 40 ms apart.
NextCombat ==
  \/ Load(CombatRnd)
  \/ Start(CombatRnd)
  \/ (eng.status = "ready" /\ SetControl({"fire"}, {TRUE}))
  \/ (eng.status = "ready" /\ MouseMove({MouseRight}))
  \/ Frame({40}, CombatRnd, CombatClock)
  \/ (eng.wave > 1 /\ RestartLevel(CombatRnd))
  \/ (eng.wave > 1 /\ NextLevel(CombatRnd))

SpecCombat == Init /\ [][NextCombat]_vars

\* A bullet of damage 22 hit a zombie of hp 40 in the last tick.
C11_ZombieWounded ==
  /\ log.op = "frame"
  /\ \E k \in 1..Len(log.hits) :
       /\ log.hits[k].type = "zombie" /\ log.hits[k].dmg = 22
       /\ log.hits[k].hp0 = 40 /\ log.hits[k].hp1 = 18

\* C11: a player bullet that hits a living enemy whose hp exceeds the
\* bullet's damage lowers the hp by exactly the damage, leaves the enemy
\* alive with hitFlash > 0 and leaves kills and score unchanged; and every
\* bullet that hit is removed in that same tick.
C11_HitWoundsEnemy ==
  /\ \A b \in 1..Len(bullets) : bullets[b].life > 0
  /\ log.simulated => Len(bullets) <= log.bulletsIn - Len(log.hits)
  /\ \A k \in 1..Len(log.hits) :
       LET h == log.hits[k]
           others == {m \in 1..Len(log.hits) : m # k /\ log.hits[m].enemy = h.enemy}
       IN  /\ h.life1 = 0
           /\ h.hp0 > h.dmg =>
                 /\ h.hp1 = h.hp0 - h.dmg /\ h.alive1 /\ h.flash1 > 0
                 /\ h.kills1 = h.kills0 /\ h.score1 = h.score0
                 /\ others = {} =>
                       /\ enemies[h.enemy].hp = h.hp0 - h.dmg
                       /\ enemies[h.enemy].alive
                       /\ enemies[h.enemy].hitFlash > 0

\* --------------------------------------------------------------------------
\* Specification: a volley at a nearby wave, with uneven frame deltas
\* --------------------------------------------------------------------------

\* Horizon of the browser clock, ms.
VolleyClock == 550

\* Frames come 30 or 50 ms apart; in the first third of the horizon they may
\* also come 20 ms apart, so that a muzzle flash (0.05 s) lives through two
\* updates.
VolleyDeltas == {30, 50}

\* The wave-1 enemies, zombies or runners, spawn 261 px right of the player.
VolleyRnd ==
  { [BaseRnd EXCEPT !.spawn = Every(Direct(MidLeft))],
    [BaseRnd EXCEPT !.spawn = Every(Direct(MidLeft)), !.etype = 800] }

NextVolley ==
  \/ Load(VolleyRnd)
  \/ (~eng.running /\ Start(VolleyRnd))
  \/ (eng.status = "ready" /\ SetControl({"fire"}, {TRUE}))
  \/ (eng.status = "ready" /\ MouseMove({MouseRight}))
  \/ Frame(VolleyDeltas, VolleyRnd, VolleyClock)
  \/ Frame({20}, VolleyRnd, VolleyClock \div 3)

SpecVolley == Init /\ [][NextVolley]_vars

\* Two bullets reached the same zombie in the last tick, the second one
\* killing it.
C12_TwoBulletsOneEnemy ==
  /\ log.op = "frame"
  /\ \E k, m \in 1..Len(log.hits) :
       /\ k < m /\ log.hits[k].enemy = log.hits[m].enemy
       /\ log.hits[m].type = "zombie" /\ log.hits[m].hp1 <= 0

\* C12: a player bullet that brings an enemy's hp to <= 0 makes it not alive
\* and adds exactly 1 to kills and the type's value to score; a dead enemy is
\* not hit again; so kills is the number of dead enemies of the level and
\* score the sum of their type values.
C12_KillsCountedOnce ==
  /\ \A k \in 1..Len(log.hits) :
       LET h == log.hits[k]
       IN  /\ h.hp1 <= 0 =>
                 /\ ~h.alive1
                 /\ h.kills1 = h.kills0 + 1
                 /\ h.score1 = h.score0 + getEnemyScore(h.type)
           /\ \A m \in 1..(k - 1) : log.hits[m].enemy = h.enemy => log.hits[m].hp1 > 0
  /\ \A i \in 1..Len(enemies) : enemies[i].alive <=> enemies[i].hp > 0
  /\ eng.kills = Cardinality({i \in 1..Len(enemies) : ~enemies[i].alive})
  /\ LET dead(t) == Cardinality({i \in 1..Len(enemies) :
                                   ~enemies[i].alive /\ enemies[i].type = t})
     IN  eng.score = 10 * dead("zombie") + 15 * dead("runner") + 50 * dead("tank")
                     + 30 * dead("shooter") + 25 * dead("spitter")

\* --------------------------------------------------------------------------
\* Claims on SpecCombat: the wave director
\* --------------------------------------------------------------------------

\* C13 as stated: the tick in which the last living enemy dies ends with
\* waveInProgress false; a wave is spawned by a tick only with no enemy
\* alive, increments the wave number by exactly 1 and comes only after at
\* least WAVE_SPAWN_DELAY of simulated time with an empty living roster; a
\* tick that spawns no wave leaves the wave number alone.
C13_WaveAfterFullDelay ==
  /\ (log.simulated /\ log.alive0 > 0 /\ AliveCount(enemies) = 0) => ~eng.waveInProgress
  /\ (eng.levelLoaded /\ ~eng.waveInProgress) => eng.waveTimer > 0
  /\ (log.simulated /\ log.waveAsked = 0) => eng.wave = log.wave0
  /\ (log.simulated /\ log.waveAsked > 0) =>
       /\ eng.wave = log.wave0 + 1
       /\ log.spawnAlive = 0
       /\ log.spawnIdle >= WAVE_SPAWN_DELAY

\* Wave 2 was spawned by the last tick, the last enemy of wave 1 having died
\* in a tick of 40 ms.
C13_WaveTwoSpawned ==
  /\ log.op = "frame" /\ log.waveAsked > 0 /\ eng.wave = 2
  /\ log.deathDt = 40 /\ AliveCount(enemies) > 0

\* C13 amended: the countdown is armed and first decremented in the tick of
\* the last death (it reads WAVE_SPAWN_DELAY - dt when that tick ends), so
\* the next wave comes after at least WAVE_SPAWN_DELAY minus that tick's dt
\* of simulated time with an empty living roster; the other parts as stated.
C13_WaveAfterDelayLessDeathTick ==
  /\ (log.simulated /\ log.alive0 > 0 /\ AliveCount(enemies) = 0) =>
       (~eng.waveInProgress /\ eng.waveTimer = WAVE_SPAWN_DELAY - log.dt)
  /\ (eng.levelLoaded /\ ~eng.waveInProgress) => eng.waveTimer > 0
  /\ (log.simulated /\ log.waveAsked = 0) => eng.wave = log.wave0
  /\ (log.simulated /\ log.waveAsked > 0) =>
       /\ eng.wave = log.wave0 + 1
       /\ log.spawnAlive = 0
       /\ log.spawnIdle + log.deathDt >= WAVE_SPAWN_DELAY
       /\ log.spawnIdle + log.deathDt < WAVE_SPAWN_DELAY + log.dt

\* --------------------------------------------------------------------------
\* Specification: touch controls.  The host sets the joystick, the aim
\* target, a key and the pointer before it starts the loop; the pickups are
\* armor (or health) packs 256 px right of the player start and the zombies
\* spawn 322 px right of it.
\* --------------------------------------------------------------------------

\* Horizon of the browser clock, ms.
TouchClock == 1700

TouchRnd ==
  { [BaseRnd EXCEPT !.spawn = Every(Direct(MidRight)), !.pspawn = Every(Direct(FarA)),
                    !.ptype = 900],
    [BaseRnd EXCEPT !.spawn = Every(Direct(MidRight)), !.pspawn = Every(Direct(FarA))] }

\* Joystick vectors (permille): full right, half right, the diagonal of
\* magnitude 1.414, the centre, and the released stick.
Joysticks ==
  { [x |-> 1000, y |-> 0, active |-> TRUE], [x |-> 500, y |-> 0, active |-> TRUE],
    [x |-> 1000, y |-> 1000, active |-> TRUE], [x |-> 0, y |-> 0, active |-> TRUE],
    [x |-> 0, y |-> 0, active |-> FALSE] }

\* Aim targets: a point right of the player and 52 px below its row, and the
\* released aim.
AimRight == [x |-> 400 * PX, y |-> 100 * PX, active |-> TRUE]

Aims == { AimRight, [x |-> 400 * PX, y |-> 100 * PX, active |-> FALSE] }

NextTouch ==
  \/ Load(TouchRnd)
  \/ (~eng.running /\ Start(TouchRnd))
  \/ (eng.status = "ready" /\ SetJoystick(Joysticks))
  \/ (eng.status = "ready" /\ SetAim(Aims))
  \/ (eng.status = "ready" /\ SetControl({"left", "fire"}, BOOLEAN))
  \/ (eng.status = "ready" /\ MouseMove({MouseRight}))
  \/ (eng.status = "ready" /\ Resize({[w |-> 420 * PX, h |-> 110 * PX]}))
  \/ Frame({50}, TouchRnd, TouchClock)

SpecTouch == Init /\ [][NextTouch]_vars

\* The last tick collected at least six armor packs, the player being
\* wounded, and maxHealth reached its cap.
C14_ArmorToTheCap ==
  /\ log.op = "frame" /\ log.simulated
  /\ Len(log.armor) >= 6 /\ log.armor[1].health0 < 100
  /\ log.pre.maxHealth = 100 /\ player.maxHealth = ARMOR_MAX_HEALTH

\* C14: every armor pack within PICKUP_RADIUS of the player in updatePickups
\* is applied and leaves the list; each sets maxHealth to min(150, maxHealth
\* + 10) and health to min(new maxHealth, health + 10); maxHealth never
\* exceeds 150 and a tick never lowers it.
C14_ArmorPickup ==
  /\ player.maxHealth <= ARMOR_MAX_HEALTH
  /\ \A k \in 1..Len(log.armor) :
       LET a == log.armor[k]
       IN  /\ a.max1 = Min(ARMOR_MAX_HEALTH, a.max0 + 10)
           /\ a.health1 = Min(a.max1, a.health0 + 10)
           /\ a.max0 = IF k = 1 THEN log.pre.maxHealth ELSE log.armor[k - 1].max1
  /\ log.simulated =>
       /\ player.maxHealth = IF log.armor = <<>> THEN log.pre.maxHealth
                             ELSE log.armor[Len(log.armor)].max1
       /\ player.maxHealth >= log.pre.maxHealth
       /\ \A k \in 1..Len(pickups) :
            /\ ~pickups[k].collected
            /\ \A m \in 1..Len(log.applied) : log.applied[m] # pickups[k].id
            /\ Dist2(pickups[k].x - player.x, pickups[k].y - player.y)
                 >= (PICKUP_RADIUS * PX) * (PICKUP_RADIUS * PX)
  /\ (log.op \notin {"init", "load", "restartLevel", "nextLevel"} /\ ~log.simulated) =>
       log.armor = <<>>

\* The last tick moved the player down and to the right along the joystick's
\* diagonal while the key "left" was held.
C18_DiagonalWithKeyHeld ==
  /\ log.op = "frame" /\ log.simulated
  /\ input.joystickActive /\ input.joystickX = 1000 /\ input.joystickY = 1000
  /\ input.left
  /\ player.x > log.pre.x /\ player.y > log.pre.y

\* C18: in a tick with the joystick active the player's move is the
\* joystick vector alone (held keys play no part), scaled to magnitude 1 when
\* longer, times speed * dt, applied per axis unless a wall blocks it; the
\* walk cycle advances by 12 * dt; a zero vector leaves position and walk
\* cycle as they were.
C18_JoystickOnly ==
  (log.simulated /\ input.joystickActive) =>
    LET jx  == input.joystickX
        jy  == input.joystickY
        len == Hypot(jx, jy)
        vx  == IF len > 1000 THEN TruncDiv(jx * 1000, len) ELSE jx
        vy  == IF len > 1000 THEN TruncDiv(jy * 1000, len) ELSE jy
        nx  == log.pre.x + TruncDiv(vx * player.speed * log.dt, 50000)
        ny  == log.pre.y + TruncDiv(vy * player.speed * log.dt, 50000)
    IN  /\ len > 1000 => (vx * vx + vy * vy <= 1000 * 1000 /\ vx * vx + vy * vy > 998 * 998)
        /\ player.x = IF isWall(World, nx, log.pre.y) THEN log.pre.x ELSE nx
        /\ player.y = IF isWall(World, player.x, ny) THEN log.pre.y ELSE ny
        /\ player.walkCycle = IF jx = 0 /\ jy = 0 THEN log.pre.walkCycle
                               ELSE log.pre.walkCycle + 12 * log.dt
        /\ (jx = 0 /\ jy = 0) => (player.x = log.pre.x /\ player.y = log.pre.y)

\* C19 as stated: while input.aimActive, player.angle is the direction from
\* the player to the aim target, every bullet fired leaves in the direction
\* from the player (where the preceding tick left it) to the aim target, and
\* input.fire is on.
C19_AimTakesPrecedence ==
  input.aimActive =>
    /\ player.angle = Atan2(input.aimY - (player.y - eng.cameraY),
                            input.aimX - (player.x - eng.cameraX))
    /\ (log.simulated /\ log.shots > 0) =>
          log.shotAngle = Atan2(input.aimY - (log.pre.y - eng.cameraY),
                                input.aimX - (log.pre.x - eng.cameraX))
    /\ input.fire

\* --------------------------------------------------------------------------
\* Claims on SpecCombat: restartLevel and nextLevel
\* --------------------------------------------------------------------------

\* restartLevel() has just run in wave 2, after shots were fired and enemies
\* killed, with the loop running.
C17_RestartedInWaveTwo ==
  /\ log.op = "restartLevel" /\ eng.running
  /\ log.wave0 = 2 /\ eng.wave = 1
  /\ log.ammo0 < 250 /\ player.ammo = 250
  /\ host.kills = 0 /\ host.score = 0

\* C17: restartLevel() and nextLevel() leave the engine loaded with status
\* "running" at once, on the same level or on (levelIndex + 1) mod
\* LEVEL_COUNT; health = maxHealth = 100, ammo = 250, kills = score = 0,
\* wave = 1, no bullets, particles, decals or lights, fireCooldown = hitFlash
\* = screenShake = 0, the roster made of the living full-hp wave-1 enemies
\* of one spawnWave call; the running flag, the pending frame callbacks, the
\* input state and the clock are as before the call.
C17_ResetInPlace ==
  [][ log'.op \in {"restartLevel", "nextLevel"} =>
        /\ eng'.levelIndex = IF log'.op = "restartLevel" THEN eng.levelIndex
                              ELSE (eng.levelIndex + 1) % LEVEL_COUNT
        /\ eng'.levelLoaded /\ eng'.status = "running"
        /\ eng'.running = eng.running /\ rafQueue' = rafQueue
        /\ input' = input /\ clock' = clock
        /\ player'.health = 100 /\ player'.maxHealth = 100 /\ player'.ammo = 250
        /\ eng'.kills = 0 /\ eng'.score = 0 /\ eng'.wave = 1
        /\ bullets' = <<>> /\ particles' = <<>> /\ decals' = <<>> /\ lights' = <<>>
        /\ eng'.fireCooldown = 0 /\ eng'.hitFlash = 0 /\ eng'.screenShake = 0
        /\ log'.waveAsked = 8 + 4 * eng'.levelIndex + 2
        /\ Len(enemies') = log'.waveMade /\ eng'.waveInProgress
        /\ \A i \in 1..Len(enemies') :
             /\ enemies'[i].alive /\ enemies'[i].hitFlash = 0
             /\ enemies'[i].type \in {"zombie", "runner"}
             /\ enemies'[i].hp = ENEMY_TYPES[enemies'[i].type].hp
        /\ \A k \in 1..Len(pickups') : ~pickups'[k].collected
        /\ host' = Snapshot([eng |-> eng', player |-> player', audio |-> audio'])
    ]_vars

\* --------------------------------------------------------------------------
\* Specification: the host's calls around the frame loop.  The host may
\* answer a snapshot by calling stop() from inside onState.
\* --------------------------------------------------------------------------

\* Horizon of the browser clock, ms.
HostClock == 520

HostRnd == { BaseRnd, [BaseRnd EXCEPT !.onState = "stop"] }

NextHost ==
  \/ Load({BaseRnd})
  \/ Start(HostRnd)
  \/ Stop
  \/ EnableAudio({BaseRnd})
  \/ ToggleMute({BaseRnd})
  \/ MouseMove({MouseRight})
  \/ Frame({50, 200}, HostRnd, HostClock)

SpecHost == Init /\ [][NextHost]_vars

\* The last frame delivered an unforced snapshot, 150 ms or more after the
\* forced one of toggleMute().
C16_UnforcedAfterWindow ==
  /\ log.op = "frame" /\ Len(log.emits) = 1
  /\ ~log.emits[1].force /\ log.emits[1].delivered /\ log.emits[1].gap >= 150
  /\ ~host.muted /\ host.status = "running"

\* C16: an unforced emitState call delivers a snapshot only when at least
\* UI_THROTTLE ms have passed since the previous delivery; the forced calls
\* (end of load, enableAudio, toggleMute, restartLevel, nextLevel) always
\* deliver, the snapshot being the engine's state at that moment; every
\* delivery restarts the window (lastUiUpdate = now).
C16_Throttled ==
  /\ \A k \in 1..Len(log.emits) :
       LET e == log.emits[k]
       IN  /\ e.force => e.delivered
           /\ (~e.force /\ e.delivered) => e.gap >= UI_THROTTLE
  /\ log.op \in {"load", "enableAudio", "toggleMute", "restartLevel", "nextLevel"} =>
       /\ Len(log.emits) = 1 /\ log.emits[1].force
       /\ host = Snapshot(World)
  /\ log.op \in {"frame", "start"} => \A k \in 1..Len(log.emits) : ~log.emits[k].force
  /\ log.emitted <=> \E k \in 1..Len(log.emits) : log.emits[k].delivered
  /\ log.emitted => eng.lastUiUpdate = clock

\* C15 as stated: once stop() has returned and until start() is called (or
\* the host resets the level), no step runs update() and none changes the
\* simulation state: player, enemies, bullets, pickups, effects, camera,
\* wave director, kills, score and cooldowns; a further stop() changes
\* nothing at all.
C15_StopHalts ==
  [][ LET Plain(q) == [i \in 1..Len(q) |-> [q[i] EXCEPT !.fresh = FALSE]]
          Sim(e) == <<e.levelIndex, e.kills, e.wave, e.score, e.waveTimer, e.enemiesPerWave,
                      e.waveInProgress, e.fireCooldown, e.hitFlash, e.screenShake,
                      e.cameraX, e.cameraY>>
      IN  /\ (log.halted /\ log'.op \notin {"start", "restartLevel", "nextLevel"}) =>
                /\ log'.ticked = 0 /\ ~log'.simulated
                /\ player' = player /\ enemies' = enemies /\ bullets' = bullets
                /\ pickups' = pickups /\ lights' = lights
                /\ Plain(particles') = Plain(particles) /\ Plain(decals') = Plain(decals)
                /\ Sim(eng') = Sim(eng)
          /\ (log.halted /\ log'.op = "stop") =>
                (eng' = eng /\ audio' = audio /\ rafQueue' = rafQueue /\ host' = host)
    ]_vars

\* --------------------------------------------------------------------------
\* Claims on SpecMelee: game over
\* --------------------------------------------------------------------------

\* The last frame ran loop() with the player dead: status is gameover and no
\* simulation pass was made, with zombies alive next to the player.
C20_DeadTick ==
  /\ log.op = "frame" /\ log.ticked > 0 /\ ~log.simulated
  /\ player.health <= 0 /\ eng.status = "gameover"
  /\ AliveCount(enemies) > 0 /\ log.dt > 0

\* C20: a step that begins with player.health <= 0 and is not a level reset
\* leaves the player's position, health and ammo, the enemies, bullets,
\* pickups, particles, decals, lights, wave number, wave timer, kills and
\* score as they were; a tick of such a
\* step runs no simulation pass and sets status to gameover.
C20_GameoverHalts ==
  [][ (player.health <= 0 /\ log'.op \notin {"load", "restartLevel", "nextLevel"}) =>
        LET Plain(q) == [i \in 1..Len(q) |-> [q[i] EXCEPT !.fresh = FALSE]]
        IN  /\ player'.x = player.x /\ player'.y = player.y
            /\ player'.health = player.health /\ player'.ammo = player.ammo
            /\ enemies' = enemies /\ bullets' = bullets
            /\ pickups' = pickups /\ lights' = lights
            /\ Plain(particles') = Plain(particles) /\ Plain(decals') = Plain(decals)
            /\ eng'.wave = eng.wave /\ eng'.waveTimer = eng.waveTimer
            /\ eng'.waveInProgress = eng.waveInProgress
            /\ eng'.kills = eng.kills /\ eng'.score = eng.score
            /\ ~log'.simulated
            /\ log'.ticked > 0 => eng'.status = "gameover"
    ]_vars

\* --------------------------------------------------------------------------
\* Specification: waves against a standing player.  A wave is empty (every
\* spawn search fails) or has one enemy 256 px right of the player start and
\* the others at the far end of the corridor; the type draw takes fifteen
\* evenly spread values (every position of every wave's pool up to wave 5),
\* the first cooldown is 0 or 0.4995 s.
\* --------------------------------------------------------------------------

\* Horizon of the browser clock, ms.
SiegeClock == 13000

SiegeRnd ==
  { [BaseRnd EXCEPT !.spawn = Every(Exhaust)],
    [BaseRnd EXCEPT !.spawn = FirstThen(1, Direct(FarA), Direct(FarB)),
                    !.etype = 999, !.cooldown = 999] }
  \cup { [BaseRnd EXCEPT !.spawn = FirstThen(1, Direct(FarA), Direct(FarB)),
                         !.etype = (k * 1000) \div 15 + 10] : k \in 0..14 }

NextSiege ==
  \/ Load(SiegeRnd)
  \/ (~eng.running /\ Start(SiegeRnd))
  \/ Frame({50}, SiegeRnd, SiegeClock)

SpecSiege == Init /\ [][NextSiege]_vars

\* The last tick saw a shooter attack for the second time while another
\* living shooter did not attack.
C21_SecondShot ==
  /\ log.op = "frame" /\ log.simulated
  /\ \E k \in 1..Len(log.attacks) :
       /\ log.attacks[k].type = "shooter" /\ log.attacks[k].since >= 0
       /\ \E i \in 1..Len(log.pre.enemies) :
            /\ enemies[i].alive /\ enemies[i].type = "shooter"
            /\ \A m \in 1..Len(log.attacks) : log.attacks[m].enemy # i

\* C21: an enemy attacks only in a tick in which its cooldown reaches 0 and
\* the player is within its attackRange; the attack leaves its cooldown at
\* 0.8 s (melee), 1.2 s (shooter) or 2 s (spitter), and comes at least that
\* much simulated time after its previous attack; at most one attack per
\* enemy and tick; an enemy that does not attack in a tick has its cooldown
\* lowered by dt (not below 0) and nothing else.
C21_AttackCooldown ==
  log.simulated =>
    LET Reset(type) == IF type = "spitter" THEN 2000 ELSE IF type = "shooter" THEN 1200 ELSE 800
        Attacked(i) == \E k \in 1..Len(log.attacks) : log.attacks[k].enemy = i
    IN  /\ \A k \in 1..Len(log.attacks) :
             LET a  == log.attacks[k]
                 r  == ENEMY_TYPES[a.type].attackRange * PX
             IN  /\ a.enemy \in 1..Len(log.pre.enemies)
                 /\ log.pre.enemies[a.enemy].alive
                 /\ a.cd0 = log.pre.enemies[a.enemy].attackCooldown
                 /\ a.cd0 - log.dt <= 0
                 /\ IF IsRanged(a.type) THEN a.d2 < r * r ELSE a.d2 <= r * r
                 /\ enemies[a.enemy].attackCooldown = Reset(a.type)
                 /\ a.since < 0 \/ a.since >= Reset(a.type)
                 /\ \A m \in 1..(k - 1) : log.attacks[m].enemy # a.enemy
        /\ \A i \in 1..Len(log.pre.enemies) :
             ~Attacked(i) =>
               enemies[i].attackCooldown =
                 IF log.pre.enemies[i].alive
                 THEN Max(0, log.pre.enemies[i].attackCooldown - log.dt)
                 ELSE log.pre.enemies[i].attackCooldown
        /\ (log.attacks = <<>> /\ \A j \in 1..Len(log.pre.bullets) : ~log.pre.bullets[j].isEnemy)
              => player.health >= log.pre.health

\* Wave numbers over which the types array itself is compared.
PoolWaves == 8

\* Wave 4 has just been spawned and its last enemy is a spitter.
C22_SpitterInWaveFour ==
  /\ log.op = "frame" /\ log.waveMade > 0 /\ eng.wave = 4
  /\ enemies[Len(enemies)].type = "spitter"

\* C22: the types array of a wave holds zombie and runner, tank and shooter
\* from wave 3 on, spitter from wave 4 on, and contains the array of the
\* wave before; every enemy a spawnWave call creates has a type of the
\* array of the current wave, and so has every enemy of the roster.
C22_TypePool ==
  LET Allowed(n) == {"zombie", "runner"}
                    \cup (IF n >= 3 THEN {"tank", "shooter"} ELSE {})
                    \cup (IF n >= 4 THEN {"spitter"} ELSE {})
      Pool(n)    == {WaveTypes(n)[k] : k \in 1..Len(WaveTypes(n))}
  IN  /\ \A n \in 1..PoolWaves :
           /\ Pool(n) = Allowed(n)
           /\ Pool(n) \subseteq Pool(n + 1)
           /\ Len(WaveTypes(n)) <= Len(WaveTypes(n + 1))
      /\ \A i \in 1..Len(enemies) : enemies[i].type \in Allowed(eng.wave)
      /\ log.waveMade > 0 =>
           \A i \in (Len(enemies) - log.waveMade + 1)..Len(enemies) :
              enemies[i].alive => enemies[i].type \in Pool(eng.wave)

\* ---------------------------------------------------------------------------
\* Crossfire: the player may hold fire along its row while the waves come
\* along that row, empty or populated; the populated wave 3 is of shooters,
\* whose bullets fly against the player's.  A wave may also consist of a
\* single enemy (every later spawn position search fails), 264 px right of
\* the player start on its row, and a player that does not fire may start
\* to walk right, towards a lone shooter.
CrossClock == 13000

CrossRnd ==
  { [BaseRnd EXCEPT !.spawn = Every(Exhaust)],
    [BaseRnd EXCEPT !.spawn = FirstThen(1, Direct(FarA), Direct(FarB)), !.etype = 900],
    [BaseRnd EXCEPT !.spawn = FirstThen(1, Direct([rx |-> 625, ry |-> 250]), Exhaust),
                    !.etype = 900] }

NextCross ==
  \/ Load(CrossRnd)
  \/ (~eng.running /\ Start(CrossRnd))
  \/ (eng.status = "ready" /\ SetControl({"fire"}, {TRUE}))
  \/ (eng.status = "ready" /\ MouseMove({MouseRight}))
  \/ (/\ ~input.fire /\ Len(enemies) = 1
      /\ enemies[1].alive /\ enemies[1].type = "shooter"
      /\ SetControl({"right"}, {TRUE}))
  \/ Frame({50}, CrossRnd, CrossClock)

SpecCross == Init /\ [][NextCross]_vars

\* In the last tick a player bullet damaged an enemy while a second living
\* enemy held it too, and an enemy bullet flew on beside it.
C23_Crossfire ==
  /\ log.op = "frame" /\ log.simulated
  /\ \E k \in 1..Len(log.fates) :
       /\ ~log.fates[k].isEnemy /\ log.fates[k].enemy # 0
       /\ \E m \in log.fates[k].alive0 \ {log.fates[k].enemy} :
            Dist2(log.fates[k].x - enemies[m].x, log.fates[k].y - enemies[m].y)
              < (ENEMY_TYPES[enemies[m].type].size * PX) * (ENEMY_TYPES[enemies[m].type].size * PX)
  /\ \E k \in 1..Len(log.fates) : log.fates[k].isEnemy /\ log.fates[k].life1 > 0

\* C23: in updateBullets a player bullet damages at most one enemy, the
\* first living one in roster order whose size radius holds it, and never
\* the player; an enemy bullet damages only the player; a bullet in a wall
\* or out of lifetime damages nobody; enemy hp and player health change by
\* exactly these hits; and the bullet list afterwards holds exactly the
\* bullets that hit nothing and have lifetime left.
C23_BulletTargets ==
  log.simulated =>
    LET F == log.fates
        Inside(k, i) ==
          Dist2(F[k].x - enemies[i].x, F[k].y - enemies[i].y)
            < (ENEMY_TYPES[enemies[i].type].size * PX) * (ENEMY_TYPES[enemies[i].type].size * PX)
        RECURSIVE Dealt(_, _)
        Dealt(i, k) == IF k = 0 THEN 0
                       ELSE Dealt(i, k - 1) + (IF F[k].enemy = i THEN F[k].damage ELSE 0)
        RECURSIVE Taken(_)
        Taken(k) == IF k = 0 THEN 0
                    ELSE Taken(k - 1) + (IF F[k].player THEN F[k].damage ELSE 0)
        RECURSIVE Struck(_)
        Struck(k) == IF k = 0 THEN 0
                     ELSE Struck(k - 1)
                          + (IF IsRanged(log.attacks[k].type) THEN 0
                             ELSE ENEMY_TYPES[log.attacks[k].type].damage)
        Kept == {k \in 1..Len(F) : F[k].life1 > 0}
    IN  /\ Len(F) = log.bulletsIn
        /\ \A k \in 1..Len(F) :
             /\ F[k].isEnemy => F[k].enemy = 0
             /\ ~F[k].isEnemy => ~F[k].player
             /\ (F[k].wall \/ F[k].life <= 0) => (F[k].enemy = 0 /\ ~F[k].player /\ F[k].life1 <= 0)
             /\ F[k].enemy # 0 =>
                  /\ F[k].enemy \in F[k].alive0
                  /\ Inside(k, F[k].enemy)
                  /\ \A m \in 1..(F[k].enemy - 1) : ~(m \in F[k].alive0 /\ Inside(k, m))
                  /\ F[k].life1 = 0
             /\ F[k].player => F[k].life1 = 0
             /\ (F[k].enemy = 0 /\ ~F[k].player) => F[k].life1 = F[k].life
        /\ \A i \in 1..Len(log.pre.enemies) :
             enemies[i].hp = log.pre.enemies[i].hp - Dealt(i, Len(F))
        /\ log.applied = <<>> =>
             player.health = log.pre.health - Struck(Len(log.attacks)) - Taken(Len(F))
        /\ Len(bullets) = Cardinality(Kept)
        /\ \A j \in 1..Len(bullets) :
             /\ bullets[j].life > 0
             /\ \E k \in Kept : /\ Cardinality({n \in Kept : n <= k}) = j
                                 /\ bullets[j].x = F[k].x /\ bullets[j].y = F[k].y
                                 /\ bullets[j].isEnemy = F[k].isEnemy

\* C24 (as stated): once a level is loaded, the player and every enemy stand
\* on a floor tile of the grid after every step.
C24_NeverInWall ==
  eng.levelLoaded =>
    /\ ~isWall(World, player.x, player.y)
    /\ \A i \in 1..Len(enemies) :
         ~enemies[i].xNaN /\ ~isWall(World, enemies[i].x, enemies[i].y)

\* C25 (as stated): every light of the list has life left, and its intensity
\* is its initial intensity times life / maxLife.
C25_ProportionalDecay ==
  \A i \in 1..Len(lights) :
     /\ lights[i].life > 0
     /\ lights[i].intensity = TruncDiv(lights[i].life * lights[i].initial, lights[i].maxLife)

\* After the last tick the viewport fits into the level on both axes, the
\* camera is held at 0 on X, where the player is still left of the middle
\* of the viewport, and at its upper bound on Y, where the player's row
\* asks for more.
C26_HeldAtTheEdge ==
  LET lv == ParsedLevel(eng.levelIndex)
  IN  /\ log.op = "frame" /\ log.simulated
      /\ lv.width * Tile >= eng.rectW /\ lv.height * Tile >= eng.rectH
      /\ eng.cameraX = 0 /\ player.x - eng.rectW \div 2 < 0
      /\ eng.cameraY = lv.height * Tile - eng.rectH
      /\ player.y - eng.rectH \div 2 > lv.height * Tile - eng.rectH

\* C26: after a tick's updateCamera, on each axis on which the level is at
\* least as large as the viewport the camera lies between 0 and the level
\* size minus the viewport size.
C26_CameraInLevel ==
  (log.simulated /\ eng.levelLoaded) =>
    LET lv == ParsedLevel(eng.levelIndex)
    IN  /\ lv.width * Tile >= eng.rectW =>
             (0 <= eng.cameraX /\ eng.cameraX <= lv.width * Tile - eng.rectW)
        /\ lv.height * Tile >= eng.rectH =>
             (0 <= eng.cameraY /\ eng.cameraY <= lv.height * Tile - eng.rectH)

\* In the last tick a player bullet flew into an enemy that was dead before
\* the tick and damaged a living enemy further down the roster.
C27_ThroughTheDead ==
  /\ log.op = "frame" /\ log.simulated
  /\ \E k \in 1..Len(log.fates) :
       /\ log.fates[k].enemy > 1
       /\ \E m \in 1..(log.fates[k].enemy - 1) :
            /\ ~log.pre.enemies[m].alive
            /\ Dist2(log.fates[k].x - enemies[m].x, log.fates[k].y - enemies[m].y)
                 < (ENEMY_TYPES[enemies[m].type].size * PX) * (ENEMY_TYPES[enemies[m].type].size * PX)

\* C27: a step other than a level load leaves every dead enemy as it is
\* (position, hp, cooldown, alive flag), no attack and no bullet hit of the
\* step is a dead enemy's, and a roster of dead enemies only does not keep
\* the wave in progress.
C27_DeadStayOut ==
  [][ log'.op \notin {"load", "restartLevel", "nextLevel"} =>
        /\ \A i \in 1..Len(enemies) :
             ~enemies[i].alive =>
               /\ Len(enemies') >= i /\ enemies'[i] = enemies[i]
               /\ \A k \in 1..Len(log'.attacks) : log'.attacks[k].enemy # i
               /\ \A k \in 1..Len(log'.fates) : log'.fates[k].enemy # i
        /\ (/\ log'.simulated /\ log'.waveAsked = 0
            /\ \A i \in 1..Len(enemies') : ~enemies'[i].alive) => ~eng'.waveInProgress
    ]_vars

\* C28 (as stated): at most one frame callback of the engine is pending, and
\* an animation frame runs loop() at most once.
C28_OneLoopChain ==
  Len(rafQueue) <= 1 /\ log.ticked <= 1

\* C29 (as stated): status is running only while the frame loop runs and
\* ready only while it does not, and a snapshot delivered by toggleMute,
\* enableAudio, restartLevel or nextLevel reports running only while the
\* frame loop runs.
C29_StatusFollowsLoop ==
  /\ eng.status = "running" => eng.running
  /\ eng.status = "ready" => ~eng.running
  /\ (/\ log.op \in {"toggleMute", "enableAudio", "restartLevel", "nextLevel"}
      /\ log.emitted /\ host.status = "running") => eng.running

\* C30 (as stated): the music plays only with audio unlocked and not muted
\* and only while the engine runs with status running.
C30_MusicOnlyWhileRunning ==
  audio.music =>
    /\ audio.unlocked /\ ~audio.muted
    /\ eng.running /\ eng.status = "running"

====
